---- MODULE Spec2Model ----
(***************************************************************************)
(* A model of sqltree: tokenizer, keyword distinguishing, token mangler,   *)
(* recursive-descent parser and line-length-driven formatter.              *)
(*                                                                         *)
(* Text is modelled as a sequence of one-character strings, so that the    *)
(* tokenizer, the quoting done by the formatter and the re-tokenization of *)
(* formatted output are computed character by character.  Positions are    *)
(* 0-based as in the Python source; sql[i] of the source is sql[i + 1]     *)
(* here.                                                                   *)
(***************************************************************************)
EXTENDS Integers, Sequences, FiniteSets, TLC

VARIABLES
    sql,          \* the input string of tokenize / sqltree / format
    dialect,      \* the Dialect: [vendor, version]
    line_length,  \* Formatter.line_length
    indent,       \* Formatter.indent as passed to format_tree
    pc,           \* position in the pipeline
    next_pos,     \* PeekingIterator.next_pos: of the tokenizer over sql, of the parser over tokens
    tokens,       \* the tokens yielded so far / the current token stream
    tree,         \* result of parse: [err, node]
    out,          \* result of Formatter.format: [err, text]
    out2,         \* result of formatting the formatted text again
    _keywords,    \* Dialect._keywords of dialect: the cached keyword set
    threads,      \* the calls of dialect.get_keywords in progress, one per thread
    version_range,\* the arguments start_version, end_version of version_is_in
    returned      \* what the calls on dialect have returned

\* the state of the calls made on the Dialect object alone
dialect_calls == <<_keywords, threads, version_range, returned>>

vars == <<sql, dialect, line_length, indent, pc, next_pos, tokens, tree, out, out2,
          dialect_calls>>

(***************************************************************************)
(* Characters                                                              *)
(***************************************************************************)
LowerSeq == <<"a","b","c","d","e","f","g","h","i","j","k","l","m",
              "n","o","p","q","r","s","t","u","v","w","x","y","z">>
UpperSeq == <<"A","B","C","D","E","F","G","H","I","J","K","L","M",
              "N","O","P","Q","R","S","T","U","V","W","X","Y","Z">>
Digits == {"0","1","2","3","4","5","6","7","8","9"}
Lower == {LowerSeq[i] : i \in 1..26}
Upper == {UpperSeq[i] : i \in 1..26}

isalpha(c) == c \in Lower \cup Upper
isnumeric(c) == c \in Digits
isalnum(c) == isalpha(c) \/ isnumeric(c)
isspace(c) == c \in {" ", "\n", "\t"}

upper_char(c) ==
    IF c \in Lower THEN UpperSeq[CHOOSE i \in 1..26 : LowerSeq[i] = c] ELSE c
lower_char(c) ==
    IF c \in Upper THEN LowerSeq[CHOOSE i \in 1..26 : UpperSeq[i] = c] ELSE c
upper(s) == [i \in 1..Len(s) |-> upper_char(s[i])]
lower(s) == [i \in 1..Len(s) |-> lower_char(s[i])]

\* the value None of the Python source
None == [k |-> "None"]

(***************************************************************************)
(* PeekingIterator over the characters of sql (peeking_iterator.py)        *)
(***************************************************************************)
has_next(s, p) == p < Len(s)
\* peek(): the next character, or None (NoChar: a value that is no character)
NoChar == "None"
peek(s, p) == IF p < Len(s) THEN s[p + 1] ELSE NoChar

\* name = e; body: the statements after an assignment see its value
Bind(e, body(_)) == body(e)
\* the same, with e computed before the statements after it run
Then(e, body(_)) == CASE {e} # {} -> body(e)

(***************************************************************************)
(* Tokenizer (tokenizer.py)                                                *)
(***************************************************************************)
PUNCTUATION ==
    { <<".">>, <<"(">>, <<")">>, <<",">>, <<"+">>, <<"*">>, <<">", "=">>,
      <<"<", "=">>, <<"=">>, <<"<", ">">>, <<"!", "=">>, <<"/">>, <<"-">>,
      <<"~">>, <<"&">>, <<"^">>, <<"|">>, <<">", ">">>, <<"<", "<">>,
      <<"&", "&">>, <<"|", "|">>, <<"%", "%">>, <<"-", "-">>, <<"/", "*">> }
\* The backtick cannot be written in a TLA+ string literal; the two-letter
\* string "bq" stands for that one character.
Backtick == "bq"
QUOTATIONS == {Backtick, "'", "\""}

\* starting_char_to_continuations: "" stands for the one-character form
starting_chars == {punc[1] : punc \in PUNCTUATION}
continuations(char) ==
    {IF Len(punc) = 1 THEN "" ELSE punc[2] : punc \in {q \in PUNCTUATION : q[1] = char}}

Token(typ, text, start, end) ==
    [typ |-> typ, text |-> text, start_index |-> start, end_index |-> end,
     comments |-> <<>>]

\* Each consumer returns [text, pos, err]: the characters collected, the
\* iterator position afterwards, and the exception raised ("" for none).
RECURSIVE consume_identifier(_, _)
consume_identifier(s, p) ==
    IF ~has_next(s, p) THEN [text |-> <<>>, pos |-> p, err |-> ""]
    ELSE LET c == s[p + 1] IN
         IF isalnum(c) \/ c = "_"
         THEN LET r == consume_identifier(s, p + 1) IN
              [r EXCEPT !.text = <<c>> \o r.text]
         ELSE [text |-> <<>>, pos |-> p, err |-> ""]

RECURSIVE consume_integer(_, _)
consume_integer(s, p) ==
    IF ~has_next(s, p) THEN [text |-> <<>>, pos |-> p, err |-> ""]
    ELSE LET c == s[p + 1] IN
         IF isnumeric(c)
         THEN LET r == consume_integer(s, p + 1) IN
              [r EXCEPT !.text = <<c>> \o r.text]
         ELSE [text |-> <<>>, pos |-> p, err |-> ""]

RECURSIVE consume_until(_, _, _, _)
consume_until(s, p, end, eof_okay) ==
    IF ~has_next(s, p)
    THEN [text |-> <<>>, pos |-> p,
          err |-> IF eof_okay THEN "" ELSE "TokenizeError"]
    ELSE LET c == s[p + 1] IN
         IF c = end THEN [text |-> <<c>>, pos |-> p + 1, err |-> ""]
         ELSE LET r == consume_until(s, p + 1, end, eof_okay) IN
              [r EXCEPT !.text = <<c>> \o r.text]

\* A variant of _consume_string_literal that collects both characters of a
\* doubled end quote: the token text is then the source text.
RECURSIVE consume_string_literal_verbatim(_, _, _)
consume_string_literal_verbatim(s, p, end) ==
    IF ~has_next(s, p) THEN [text |-> <<>>, pos |-> p, err |-> "TokenizeError"]
    ELSE LET c == s[p + 1] IN
         IF c = end
         THEN IF peek(s, p + 1) = end
              THEN LET r == consume_string_literal_verbatim(s, p + 2, end) IN
                   [r EXCEPT !.text = <<c, c>> \o r.text]
              ELSE [text |-> <<c>>, pos |-> p + 1, err |-> ""]
         ELSE LET r == consume_string_literal_verbatim(s, p + 1, end) IN
              [r EXCEPT !.text = <<c>> \o r.text]

\* A doubled end quote is consumed as two characters and collected as one.
RECURSIVE consume_string_literal(_, _, _)
consume_string_literal(s, p, end) ==
    IF ~has_next(s, p) THEN [text |-> <<>>, pos |-> p, err |-> "TokenizeError"]
    ELSE LET c == s[p + 1] IN
         IF c = end
         THEN IF peek(s, p + 1) = end
              THEN LET r == consume_string_literal(s, p + 2, end) IN
                   [r EXCEPT !.text = <<c>> \o r.text]
              ELSE [text |-> <<c>>, pos |-> p + 1, err |-> ""]
         ELSE LET r == consume_string_literal(s, p + 1, end) IN
              [r EXCEPT !.text = <<c>> \o r.text]

\* the body of the "/*" branch: collect up to and including "*/"
RECURSIVE consume_block_comment(_, _, _)
consume_block_comment(s, p, seen_star) ==
    IF ~has_next(s, p) THEN [text |-> <<>>, pos |-> p, err |-> "TokenizeError"]
    ELSE LET c == s[p + 1] IN
         IF seen_star /\ c = "/" THEN [text |-> <<c>>, pos |-> p + 1, err |-> ""]
         ELSE LET r == consume_block_comment(s, p + 1, c = "*") IN
              [r EXCEPT !.text = <<c>> \o r.text]

Step(kind, typ, text, pos) == [kind |-> kind, typ |-> typ, text |-> text, pos |-> pos]
Yield(typ, r, prefix) ==
    IF r.err # "" THEN Step(r.err, typ, <<>>, r.pos)
    ELSE Step("token", typ, prefix \o r.text, r.pos)

\* the "%" branch, entered with the "%" consumed (p is past it)
tokenize_percent(s, p) ==
    LET next_char == peek(s, p) IN
    IF next_char # NoChar /\ isalpha(next_char)
    THEN Yield("placeholder", consume_identifier(s, p), <<"%">>)
    ELSE IF next_char = "("
    THEN LET name == consume_identifier(s, p + 1) IN
         IF ~has_next(s, name.pos)
         THEN \* pi.next() raises StopIteration inside the generator
              Step("RuntimeError", "placeholder", <<>>, name.pos)
         ELSE IF s[name.pos + 1] # ")"
         THEN Step("TokenizeError", "placeholder", <<>>, name.pos + 1)
         ELSE LET rest == consume_identifier(s, name.pos + 1) IN
              Step("token", "placeholder",
                   <<"%", "(">> \o name.text \o <<")">> \o rest.text, rest.pos)
    ELSE IF next_char = "%"
    THEN Step("token", "punctuation", <<"%", "%">>, p + 1)
    ELSE Step("token", "punctuation", <<"%">>, p)

\* the punctuation branch, entered with char consumed (p is past it)
tokenize_punctuation(s, p, char) ==
    IF ~has_next(s, p)
    THEN IF "" \in continuations(char)
         THEN Step("token", "punctuation", <<char>>, p)
         ELSE Step("TokenizeError", "punctuation", <<>>, p)
    ELSE LET c == s[p + 1] IN
         IF c \in continuations(char)
         THEN IF <<char, c>> = <<"-", "-">>
              THEN Yield("comment", consume_until(s, p + 1, "\n", TRUE), <<char, c>>)
              ELSE IF <<char, c>> = <<"/", "*">>
              THEN Yield("comment", consume_block_comment(s, p + 1, FALSE), <<char, c>>)
              ELSE Step("token", "punctuation", <<char, c>>, p + 1)
         ELSE \* elif "" in c: the empty string is in every string
              Step("token", "punctuation", <<char>>, p)

\* the numeric branch, entered after wind_back (p is at the first digit)
tokenize_number(s, p) ==
    LET int == consume_integer(s, p)
        frac == IF peek(s, int.pos) = "."
                THEN LET f == consume_integer(s, int.pos + 1) IN
                     [text |-> int.text \o <<".">> \o f.text, pos |-> f.pos]
                ELSE [text |-> int.text, pos |-> int.pos]
        char == peek(s, frac.pos)
    IN  IF char = "e" \/ char = "E"
        THEN LET sign == IF peek(s, frac.pos + 1) = "-"
                         THEN [text |-> <<"-">>, pos |-> frac.pos + 2]
                         ELSE [text |-> <<>>, pos |-> frac.pos + 1]
                 exp == consume_integer(s, sign.pos)
             IN  Step("token", "number",
                      frac.text \o <<char>> \o sign.text \o exp.text, exp.pos)
        ELSE Step("token", "number", frac.text, frac.pos)

\* One iteration of the while loop of tokenize, from next_pos = p.
tokenize_step(s, p) ==
    LET char == s[p + 1] IN
    IF isalpha(char) THEN Yield("identifier", consume_identifier(s, p), <<>>)
    ELSE IF isspace(char) THEN Step("skip", "", <<>>, p + 1)
    ELSE IF char = "%" THEN tokenize_percent(s, p + 1)
    ELSE IF char = "?" THEN Step("token", "placeholder", <<char>>, p + 1)
    ELSE IF char \in starting_chars THEN tokenize_punctuation(s, p + 1, char)
    ELSE IF isnumeric(char) THEN tokenize_number(s, p)
    ELSE IF char \in QUOTATIONS
    THEN Yield("string", consume_string_literal(s, p + 1, char), <<char>>)
    ELSE IF char = "{" THEN Yield("placeholder", consume_until(s, p + 1, "}", FALSE), <<"{">>)
    ELSE IF char = "#" THEN Yield("comment", consume_until(s, p + 1, "\n", TRUE), <<"#">>)
    ELSE Step("TokenizeError", "", <<>>, p + 1)

\* The tokens yielded once the while loop has ended: nothing follows the loop.
tokenize_end(s, p) == <<>>

\* The while loop of tokenize runs one iteration from each position it
\* reaches.  loop_next[p] is the position after the iteration that starts at
\* p; the position Len(s), where has_next fails, stands for the end of the
\* loop, that a raising iteration reaches at once.
loop_next(s) ==
    [p \in 0..Len(s) |->
        IF ~has_next(s, p) THEN p
        ELSE LET st == tokenize_step(s, p) IN
             IF st.kind \in {"token", "skip"} THEN st.pos ELSE Len(s)] @@ <<>>

\* The positions the loop reaches from the positions of seen: jump is
\* loop_next iterated 2^k times and seen holds the positions reached in
\* fewer than 2^k iterations, so that a pass doubles the iterations covered.
RECURSIVE loop_positions(_, _)
loop_positions(seen, jump) ==
    LET reached == seen \cup {jump[p] : p \in seen} IN
    IF reached = seen THEN seen
    ELSE loop_positions(reached, [p \in DOMAIN jump |-> jump[jump[p]]] @@ <<>>)

\* the positions the loop reaches, in the order it reaches them
in_order(s, visited) == SelectSeq([i \in 1..Len(s) |-> i - 1], LAMBDA p : p \in visited)

loop_at(s) == in_order(s, loop_positions({0}, loop_next(s)))

\* what the iterations at the positions at yield: the exception of the
\* iteration that raises, or else the tokens of the iterations that yield one
loop_yield(s, at, steps) ==
    LET raised == {i \in 1..Len(at) : steps[i].kind \notin {"token", "skip"}}
        yielded == SelectSeq([i \in 1..Len(at) |-> i], LAMBDA i : steps[i].kind = "token")
    IN  IF raised # {} THEN [err |-> steps[CHOOSE i \in raised : TRUE].kind, toks |-> <<>>]
        ELSE [err |-> "",
              toks |-> [n \in 1..Len(yielded) |->
                           Token(steps[yielded[n]].typ, steps[yielded[n]].text,
                                 at[yielded[n]], steps[yielded[n]].pos - 1)]
                       \o tokenize_end(s, Len(s))]

tokenize_at(s, at) == loop_yield(s, at, [i \in 1..Len(at) |-> tokenize_step(s, at[i])] \o <<>>)

\* list(tokenize(sql, dialect)): [err, toks]
tokenize(s) == tokenize_at(s, loop_at(s))

(***************************************************************************)
(* Words.  W.select is the text "SELECT", and so on; the model's inputs     *)
(* are built from these words, identifiers, literals and punctuation.      *)
(***************************************************************************)
W ==
    [ select |-> <<"S","E","L","E","C","T">>,
      from |-> <<"F","R","O","M">>,
      where |-> <<"W","H","E","R","E">>,
      group |-> <<"G","R","O","U","P">>,
      by |-> <<"B","Y">>,
      having |-> <<"H","A","V","I","N","G">>,
      order |-> <<"O","R","D","E","R">>,
      limit |-> <<"L","I","M","I","T">>,
      all |-> <<"A","L","L">>,
      offset |-> <<"O","F","F","S","E","T">>,
      union |-> <<"U","N","I","O","N">>,
      distinct |-> <<"D","I","S","T","I","N","C","T">>,
      distinctrow |-> <<"D","I","S","T","I","N","C","T","R","O","W">>,
      with |-> <<"W","I","T","H">>,
      recursive |-> <<"R","E","C","U","R","S","I","V","E">>,
      as |-> <<"A","S">>,
      update |-> <<"U","P","D","A","T","E">>,
      set |-> <<"S","E","T">>,
      delete |-> <<"D","E","L","E","T","E">>,
      using |-> <<"U","S","I","N","G">>,
      and |-> <<"A","N","D">>,
      or |-> <<"O","R">>,
      xor |-> <<"X","O","R">>,
      not |-> <<"N","O","T">>,
      in |-> <<"I","N">>,
      is |-> <<"I","S">>,
      like |-> <<"L","I","K","E">>,
      regexp |-> <<"R","E","G","E","X","P">>,
      null |-> <<"N","U","L","L">>,
      div |-> <<"D","I","V">>,
      mod |-> <<"M","O","D">>,
      asc |-> <<"A","S","C">>,
      desc |-> <<"D","E","S","C">>,
      join |-> <<"J","O","I","N">>,
      inner |-> <<"I","N","N","E","R">>,
      cross |-> <<"C","R","O","S","S">>,
      straight_join |-> <<"S","T","R","A","I","G","H","T","_","J","O","I","N">>,
      left |-> <<"L","E","F","T">>,
      right |-> <<"R","I","G","H","T">>,
      outer |-> <<"O","U","T","E","R">>,
      natural |-> <<"N","A","T","U","R","A","L">>,
      on |-> <<"O","N">>,
      use |-> <<"U","S","E">>,
      ignore |-> <<"I","G","N","O","R","E">>,
      force |-> <<"F","O","R","C","E">>,
      index |-> <<"I","N","D","E","X">>,
      key |-> <<"K","E","Y">>,
      for |-> <<"F","O","R">>,
      primary |-> <<"P","R","I","M","A","R","Y">> ]
Words == {W[f] : f \in DOMAIN W}

\* the members of BASE_MYSQL_KEYWORDS among Words
BASE_MYSQL_KEYWORDS ==
    { W.select, W.from, W.where, W.group, W.by, W.having, W.order, W.limit,
      W.all, W.union, W.distinct, W.distinctrow, W.with, W.as, W.update,
      W.set, W.delete, W.using, W.and, W.or, W.xor, W.not, W.in, W.is, W.like,
      W.regexp, W.null, W.div, W.mod, W.asc, W.desc, W.join, W.inner, W.cross,
      W.straight_join, W.left, W.right, W.outer, W.natural, W.on, W.use, W.ignore,
      W.force, W.index, W.key, W.for, W.primary }
\* the members of MYSQL8_NEW_KEYWORDS among Words
MYSQL8_NEW_KEYWORDS ==
    { W.recursive }
\* the members of PRESTO_KEYWORDS among Words
PRESTO_KEYWORDS ==
    { W.select, W.from, W.where, W.group, W.by, W.having, W.order, W.union,
      W.distinct, W.with, W.recursive, W.as, W.set, W.delete, W.using,
      W.and, W.or, W.not, W.in, W.is, W.like,
      W.null, W.join, W.inner, W.cross, W.left, W.right, W.outer, W.natural, W.on,
      W.for }
\* the members of REDSHIFT_KEYWORDS among Words
REDSHIFT_KEYWORDS ==
    { W.select, W.from, W.where, W.group, W.having, W.order, W.limit, W.all,
      W.offset, W.union, W.distinct, W.with, W.as, W.set, W.using, W.and, W.or, W.not, W.in, W.is, W.like, W.null,
      W.asc, W.desc, W.join, W.inner, W.cross, W.left, W.right, W.outer, W.natural, W.on,
      W.ignore, W.for, W.primary }

(***************************************************************************)
(* Dialect (dialect.py)                                                    *)
(***************************************************************************)
Vendors == {"mysql", "presto", "redshift"}
Dialect(vendor, version) == [vendor |-> vendor, version |-> version]

\* Python's tuple order on versions (tuples of integers)
RECURSIVE tuple_less(_, _)
tuple_less(a, b) ==
    IF a = <<>> THEN b # <<>>
    ELSE IF b = <<>> THEN FALSE
    ELSE IF a[1] # b[1] THEN a[1] < b[1]
    ELSE tuple_less(Tail(a), Tail(b))

\* a version is a tuple of integers; NoVersion stands for Python's None
NoVersion == <<>>

\* version_is_in with the upper bound taken as inclusive
version_is_in_closed(version, start_version, end_version) ==
    IF version = NoVersion THEN end_version = NoVersion
    ELSE IF start_version # NoVersion /\ tuple_less(version, start_version) THEN FALSE
    ELSE IF end_version # NoVersion /\ tuple_less(end_version, version) THEN FALSE
    ELSE TRUE

version_is_in(version, start_version, end_version) ==
    IF version = NoVersion THEN end_version = NoVersion
    ELSE IF start_version # NoVersion /\ tuple_less(version, start_version) THEN FALSE
    ELSE IF end_version # NoVersion /\ ~tuple_less(version, end_version) THEN FALSE
    ELSE TRUE

compute_keywords(vendor, version) ==
    IF vendor = "mysql"
    THEN IF version_is_in(version, <<8>>, NoVersion)
         THEN BASE_MYSQL_KEYWORDS \cup MYSQL8_NEW_KEYWORDS
         ELSE BASE_MYSQL_KEYWORDS
    ELSE IF vendor = "presto" THEN PRESTO_KEYWORDS
    ELSE REDSHIFT_KEYWORDS

\* Dialect.get_keywords: the cache holds what compute_keywords returns
get_keywords(d) == compute_keywords(d.vendor, d.version)

\* Dialect.get_keywords statement by statement.  cached is the value of
\* self._keywords; None is the empty set, which no vendor's keyword set equals.
\* "if self._keywords is not None":
keywords_is_set(cached) == cached # {}
\* the first return with no keyword in it
return_no_keywords(cached) == {}
\* "return self._keywords":
return_cached(cached) == cached

\* _FEATURES: every value is a boolean; a vendor without an entry supports
\* the feature (the default of .get(self.vendor, True))
FEATURES ==
    [ require_into_for_ignore      |-> [mysql |-> FALSE, redshift |-> TRUE],
      support_value_for_insert     |-> [mysql |-> TRUE, redshift |-> FALSE],
      insert_ignore                |-> [mysql |-> TRUE, redshift |-> FALSE],
      default_values_on_insert     |-> [mysql |-> FALSE, redshift |-> TRUE],
      insert_select_require_parens |-> [mysql |-> FALSE, redshift |-> TRUE],
      replace                      |-> [mysql |-> TRUE, redshift |-> FALSE],
      with_clause                  |-> [mysql |-> FALSE, presto |-> TRUE, redshift |-> TRUE],
      require_from_for_delete      |-> [mysql |-> TRUE, redshift |-> FALSE],
      update_limit                 |-> [mysql |-> TRUE, redshift |-> FALSE],
      delete_using                 |-> [mysql |-> FALSE, redshift |-> TRUE],
      comma_offset                 |-> [mysql |-> TRUE, redshift |-> FALSE],
      limit_all                    |-> [mysql |-> FALSE, redshift |-> TRUE] ]

supports_feature(d, feature) ==
    IF d.vendor \in DOMAIN FEATURES[feature] THEN FEATURES[feature][d.vendor] ELSE TRUE

get_identifier_delimiter(d) == IF d.vendor = "mysql" THEN Backtick ELSE "\""

\* Dialect.get_select_modifiers, the groups whose words are among Words
get_select_modifiers(d) ==
    IF d.vendor = "mysql"
    THEN << <<W.all, W.distinct, W.distinctrow>> >>
    ELSE << <<W.all, W.distinct>> >>

(***************************************************************************)
(* distinguish_keywords (keywords.py)                                      *)
(***************************************************************************)
distinguish_keywords(toks, d) ==
    [i \in 1..Len(toks) |->
        IF toks[i].typ = "identifier" /\ upper(toks[i].text) \in get_keywords(d)
        THEN Token("keyword", upper(toks[i].text), toks[i].start_index, toks[i].end_index)
        ELSE toks[i]]

(***************************************************************************)
(* mangle (mangler.py)                                                     *)
(***************************************************************************)
KEYWORD_PAIRS == {<<W.is, W.not>>, <<W.not, W.in>>, <<W.not, W.like>>, <<W.not, W.regexp>>}

is_keyword(token, keyword) == token.typ = "keyword" /\ token.text = keyword

\* _merge_tokens that starts the merged token at the right token
merge_tokens_right_start(left, right) ==
    [typ |-> "keyword", text |-> left.text \o <<" ">> \o right.text,
     start_index |-> right.start_index, end_index |-> right.end_index,
     comments |-> left.comments \o right.comments]

\* _merge_tokens that keeps the location of the left token
merge_tokens_left_span(left, right) ==
    [typ |-> "keyword", text |-> left.text \o <<" ">> \o right.text,
     start_index |-> left.start_index, end_index |-> left.end_index,
     comments |-> left.comments \o right.comments]

merge_tokens(left, right) ==
    [typ |-> "keyword", text |-> left.text \o <<" ">> \o right.text,
     start_index |-> left.start_index, end_index |-> right.end_index,
     comments |-> left.comments \o right.comments]

\* an iteration that appends a comment like any other token
mangle_step_comment_appended(new_tokens, token) ==
    LET n == Len(new_tokens)
        last == new_tokens[n]
    IN  IF \E pair \in KEYWORD_PAIRS : is_keyword(token, pair[2]) /\ is_keyword(last, pair[1])
        THEN [new_tokens EXCEPT ![n] = merge_tokens(last, token)]
        ELSE Append(new_tokens, token)

\* one iteration of the loop of mangle, for the token at index i > 0
mangle_step(new_tokens, token) ==
    LET n == Len(new_tokens)
        last == new_tokens[n]
    IN  IF \E pair \in KEYWORD_PAIRS : is_keyword(token, pair[2]) /\ is_keyword(last, pair[1])
        THEN [new_tokens EXCEPT ![n] = merge_tokens(last, token)]
        ELSE IF token.typ = "comment"
        THEN [new_tokens EXCEPT ![n] = [last EXCEPT !.comments = Append(last.comments, token)]]
        ELSE Append(new_tokens, token)

RECURSIVE mangle_from(_, _, _)
mangle_from(toks, i, new_tokens) ==
    IF i > Len(toks) THEN new_tokens
    ELSE Then(IF i = 1 THEN Append(new_tokens, toks[i])
              ELSE mangle_step(new_tokens, toks[i]),
              LAMBDA next_tokens : mangle_from(toks, i + 1, next_tokens))
mangle(toks) == mangle_from(toks, 1, <<>>)

(***************************************************************************)
(* Syntax tree nodes (parser.py); the field k holds the class name         *)
(***************************************************************************)
Keyword(token, text) == [k |-> "Keyword", token |-> token, text |-> text]
Punctuation(token, text) == [k |-> "Punctuation", token |-> token, text |-> text]
Comment(token, text) == [k |-> "Comment", token |-> token, text |-> text]
Identifier(token, text) == [k |-> "Identifier", token |-> token, text |-> text]
KeywordIdentifier(keyword) == [k |-> "KeywordIdentifier", keyword |-> keyword]
KeywordSequence(keywords) == [k |-> "KeywordSequence", keywords |-> keywords]
WithTrailingComma(node, trailing_comma) ==
    [k |-> "WithTrailingComma", node |-> node, trailing_comma |-> trailing_comma]
StringLiteral(token, value) == [k |-> "StringLiteral", token |-> token, value |-> value]
NumericLiteral(token, value) == [k |-> "NumericLiteral", token |-> token, value |-> value]
Placeholder(token, text) == [k |-> "Placeholder", token |-> token, text |-> text]
NullExpression(null_kw) == [k |-> "NullExpression", null_kw |-> null_kw]
FunctionCall(callee, left_paren, args, right_paren) ==
    [k |-> "FunctionCall", callee |-> callee, left_paren |-> left_paren,
     args |-> args, right_paren |-> right_paren]
ExprList(left_paren, exprs, right_paren) ==
    [k |-> "ExprList", left_paren |-> left_paren, exprs |-> exprs, right_paren |-> right_paren]
BinOp(left, op, right) == [k |-> "BinOp", left |-> left, op |-> op, right |-> right]
UnaryOp(op, expr) == [k |-> "UnaryOp", op |-> op, expr |-> expr]
Parenthesized(left_punc, inner, right_punc) ==
    [k |-> "Parenthesized", left_punc |-> left_punc, inner |-> inner, right_punc |-> right_punc]
Distinct(distinct_kw, expr) == [k |-> "Distinct", distinct_kw |-> distinct_kw, expr |-> expr]
Not(not_kw, expr) == [k |-> "Not", not_kw |-> not_kw, expr |-> expr]
Star(token) == [k |-> "Star", token |-> token]
SelectExpr(expr, as_kw, alias) ==
    [k |-> "SelectExpr", expr |-> expr, as_kw |-> as_kw, alias |-> alias]
OrderByExpr(expr, direction_kw) ==
    [k |-> "OrderByExpr", expr |-> expr, direction_kw |-> direction_kw]
SimpleTableName(identifier) == [k |-> "SimpleTableName", identifier |-> identifier]
SimpleTableFactor(table_name, as_kw, alias, index_hint_list) ==
    [k |-> "SimpleTableFactor", table_name |-> table_name, as_kw |-> as_kw,
     alias |-> alias, index_hint_list |-> index_hint_list]
IndexHint(intro_kw, kind_kw, for_kw, for_what, left_paren, index_list, right_paren) ==
    [k |-> "IndexHint", intro_kw |-> intro_kw, kind_kw |-> kind_kw, for_kw |-> for_kw,
     for_what |-> for_what, left_paren |-> left_paren, index_list |-> index_list,
     right_paren |-> right_paren]
JoinOn(kw, search_condition) ==
    [k |-> "JoinOn", kw |-> kw, search_condition |-> search_condition]
JoinUsing(kw, left_paren, join_column_list, right_paren) ==
    [k |-> "JoinUsing", kw |-> kw, left_paren |-> left_paren,
     join_column_list |-> join_column_list, right_paren |-> right_paren]
SimpleJoinedTable(left, inner_cross, join_kw, right, join_specification) ==
    [k |-> "SimpleJoinedTable", left |-> left, inner_cross |-> inner_cross,
     join_kw |-> join_kw, right |-> right, join_specification |-> join_specification]
LeftRightJoinedTable(left, left_right, outer_kw, join_kw, right, join_specification) ==
    [k |-> "LeftRightJoinedTable", left |-> left, left_right |-> left_right,
     outer_kw |-> outer_kw, join_kw |-> join_kw, right |-> right,
     join_specification |-> join_specification]
NaturalJoinedTable(left, natural_kw, left_right, inner_outer, join_kw, right) ==
    [k |-> "NaturalJoinedTable", left |-> left, natural_kw |-> natural_kw,
     left_right |-> left_right, inner_outer |-> inner_outer, join_kw |-> join_kw,
     right |-> right]
FromClause(kw, table) == [k |-> "FromClause", kw |-> kw, table |-> table]
WhereClause(kw, conditions) == [k |-> "WhereClause", kw |-> kw, conditions |-> conditions]
GroupByClause(kwseq, expr) == [k |-> "GroupByClause", kwseq |-> kwseq, expr |-> expr]
HavingClause(kw, conditions) == [k |-> "HavingClause", kw |-> kw, conditions |-> conditions]
OrderByClause(kwseq, expr) == [k |-> "OrderByClause", kwseq |-> kwseq, expr |-> expr]
LimitClause(kw, row_count) == [k |-> "LimitClause", kw |-> kw, row_count |-> row_count]
All(kw) == [k |-> "All", kw |-> kw]
SelectLimitClause(kw, row_count, offset, offset_leaf) ==
    [k |-> "SelectLimitClause", kw |-> kw, row_count |-> row_count,
     offset |-> offset, offset_leaf |-> offset_leaf]
CommonTableExpression(table_name, col_names, as_kw, subquery) ==
    [k |-> "CommonTableExpression", table_name |-> table_name, col_names |-> col_names,
     as_kw |-> as_kw, subquery |-> subquery]
WithClause(kw, recursive_kw, ctes) ==
    [k |-> "WithClause", kw |-> kw, recursive_kw |-> recursive_kw, ctes |-> ctes]
PlaceholderClause(placeholder) == [k |-> "PlaceholderClause", placeholder |-> placeholder]
UnionEntry(union_kw, all_kw, select) ==
    [k |-> "UnionEntry", union_kw |-> union_kw, all_kw |-> all_kw, select |-> select]
UnionStatement(leading_comments, first, others, order_by, limit) ==
    [k |-> "UnionStatement", leading_comments |-> leading_comments, first |-> first,
     others |-> others, order_by |-> order_by, limit |-> limit]
UsingClause(kw, tables) == [k |-> "UsingClause", kw |-> kw, tables |-> tables]
Delete(leading_comments, with_clause, delete_kw, from_clause, using_clause, where,
       order_by, limit) ==
    [k |-> "Delete", leading_comments |-> leading_comments, with_clause |-> with_clause,
     delete_kw |-> delete_kw, from_clause |-> from_clause, using_clause |-> using_clause,
     where |-> where, order_by |-> order_by, limit |-> limit]
Assignment(col_name, eq_punc, value) ==
    [k |-> "Assignment", col_name |-> col_name, eq_punc |-> eq_punc, value |-> value]
SetClause(kw, assignments) == [k |-> "SetClause", kw |-> kw, assignments |-> assignments]
Update(leading_comments, with_clause, update_kw, table, set_clause, where, order_by, limit) ==
    [k |-> "Update", leading_comments |-> leading_comments, with_clause |-> with_clause,
     update_kw |-> update_kw, table |-> table, set_clause |-> set_clause,
     where |-> where, order_by |-> order_by, limit |-> limit]
ColNameList(open_paren, col_names, close_paren) ==
    [k |-> "ColNameList", open_paren |-> open_paren, col_names |-> col_names,
     close_paren |-> close_paren]
Subselect(left_paren, select, right_paren) ==
    [k |-> "Subselect", left_paren |-> left_paren, select |-> select,
     right_paren |-> right_paren]

(***************************************************************************)
(* Parser state and the outcome of a parsing function                      *)
(***************************************************************************)
\* Parser(PeekingIterator(list(tokens)), dialect)
Parser(toks, d) == [toks |-> toks, next_pos |-> 0, dialect |-> d]

\* an outcome is a return (err = "") with the parser state after the call and
\* the returned node, or a raised exception with the token it is located at
Ok(p, node) == [err |-> "", at |-> None, p |-> p, node |-> node]
Fail(err, token) == [err |-> err, at |-> token, p |-> None, node |-> None]

\* PeekingIterator
pi_has_next(p) == p.next_pos < Len(p.toks)
pi_peek(p) == IF p.next_pos < Len(p.toks) THEN p.toks[p.next_pos + 1] ELSE None
pi_advance(p) == [p EXCEPT !.next_pos = @ + 1]
pi_wind_back(p) == [p EXCEPT !.next_pos = @ - 1]
\* peek_or_raise: self.seq[self.next_pos] raises IndexError past the end
pi_peek_or_raise(p) ==
    IF p.next_pos < Len(p.toks) THEN Ok(p, p.toks[p.next_pos + 1])
    ELSE Fail("IndexError", None)

from_unexpected_token(token) == Fail("ParseError", token)
from_disallowed(token) == Fail("ParseError", token)

\* Every parser function is entered through parser_call, the call stack of
\* the parser: name(args) below stands for the Python call _name(args).
RECURSIVE parser_call(_, _)
RECURSIVE next_or_else(_)
RECURSIVE maybe_consume_punctuation(_, _)
RECURSIVE expect_punctuation(_, _)
RECURSIVE token_is_keyword(_, _, _)
RECURSIVE expect_keyword(_, _)
RECURSIVE maybe_consume_keyword(_, _)
RECURSIVE maybe_consume_one_of_keywords(_, _)
RECURSIVE kwseq_loop(_, _, _, _)
RECURSIVE maybe_consume_keyword_sequence(_, _)
RECURSIVE maybe_clause_placeholder(_)
RECURSIVE maybe_parse_identifier(_)
RECURSIVE parse_identifier(_)
RECURSIVE parse_expression(_)
RECURSIVE parse_binop(_, _)
RECURSIVE comma_separated_loop(_, _, _)
RECURSIVE parse_comma_separated(_, _)
RECURSIVE parse_in_rhs(_)
RECURSIVE parse_function_call(_, _)
RECURSIVE parse_identifier_expression(_, _)
RECURSIVE parse_simple_expression(_)
RECURSIVE parse_select_expr(_)
RECURSIVE parse_order_by_expr(_)
RECURSIVE parse_order_by_list(_)
RECURSIVE parse_assignment(_)
RECURSIVE parse_table_name(_)
RECURSIVE parse_table_factor(_)
RECURSIVE expect_one_of_kwseqs(_, _, _)
RECURSIVE comma_separated_allow_empty_loop(_, _, _)
RECURSIVE parse_index(_)
RECURSIVE parse_index_hint(_)
RECURSIVE parse_join_specification(_)
RECURSIVE parse_natural_join(_, _)
RECURSIVE parse_left_right_join(_, _)
RECURSIVE parse_simple_join(_, _)
RECURSIVE table_reference_loop(_, _)
RECURSIVE parse_table_reference(_)
RECURSIVE parse_table_references(_)
RECURSIVE parse_from_clause(_, _)
RECURSIVE parse_where_clause(_)
RECURSIVE parse_having_clause(_)
RECURSIVE parse_group_by_clause(_)
RECURSIVE parse_order_by_clause(_, _)
RECURSIVE parse_limit_clause(_, _)
RECURSIVE parse_select_limit_clause(_)
RECURSIVE parse_maybe_clause(_, _)
RECURSIVE parse_into_option(_)
RECURSIVE parse_lock_mode(_)
RECURSIVE maybe_parse_col_name_list(_)
RECURSIVE parse_cte(_)
RECURSIVE parse_with_clause(_)
RECURSIVE call_parser(_, _)
RECURSIVE select_modifiers_loop(_, _, _, _)
RECURSIVE parse_single_select(_)
RECURSIVE parse_subselect(_, _)
RECURSIVE union_loop(_, _)
RECURSIVE parse_select(_)
RECURSIVE parse_set_clause(_)
RECURSIVE parse_update(_)
RECURSIVE using_loop(_, _)
RECURSIVE parse_using_clause(_, _)
RECURSIVE parse_delete(_)
RECURSIVE assert_done(_)
RECURSIVE parse_with(_)
RECURSIVE parse_statement(_)
_next_or_else(p) ==
    IF pi_has_next(p) THEN Ok(pi_advance(p), pi_peek(p)) ELSE Fail("EOFError", None)

next_is_punctuation(p, punctuation) ==
    LET token == pi_peek(p)
    IN  token # None /\ token.typ = "punctuation" /\ token.text = punctuation

_maybe_consume_punctuation(p, punctuation) ==
    IF ~pi_has_next(p) THEN Ok(p, None)
    ELSE LET token == pi_peek(p)
         IN  IF token.typ = "punctuation" /\ token.text = punctuation
             THEN Ok(pi_advance(p), Punctuation(token, token.text))
             ELSE Ok(p, None)

_expect_punctuation(p, punctuation) ==
    LET r == next_or_else(p)
    IN  IF r.err # "" THEN r
        ELSE IF r.node.typ # "punctuation" \/ r.node.text # punctuation
        THEN from_unexpected_token(r.node)
        ELSE Ok(r.p, Punctuation(r.node, r.node.text))

_token_is_keyword(p, token, keyword) ==
    IF token = None THEN FALSE
    ELSE IF keyword \in get_keywords(p.dialect)
    THEN token.typ = "keyword" /\ token.text = keyword
    ELSE token.typ = "identifier" /\ upper(token.text) = keyword

next_is_keyword(p, keyword) == token_is_keyword(p, pi_peek(p), keyword)

_expect_keyword(p, keyword) ==
    LET r == next_or_else(p)
    IN  IF r.err # "" THEN r
        ELSE IF ~token_is_keyword(p, r.node, keyword) THEN from_unexpected_token(r.node)
        ELSE Ok(r.p, Keyword(r.node, r.node.text))

_maybe_consume_keyword(p, keyword) ==
    IF ~pi_has_next(p) THEN Ok(p, None)
    ELSE LET token == pi_peek(p)
         IN  IF token_is_keyword(p, token, keyword)
             THEN Ok(pi_advance(p), Keyword(token, token.text))
             ELSE Ok(p, None)

\* keywords is a sequence here, tried in order as the inner for loop does
_maybe_consume_one_of_keywords(p, keywords) ==
    IF ~pi_has_next(p) THEN Ok(p, None)
    ELSE LET token == pi_peek(p)
         IN  IF \E i \in 1..Len(keywords) : token_is_keyword(p, token, keywords[i])
             THEN Ok(pi_advance(p), Keyword(token, token.text))
             ELSE Ok(p, None)

\* the for loop of _maybe_consume_keyword_sequence: done when every keyword
\* was found; otherwise the loop ended on a mismatch or on the end of the list
_kwseq_loop(p, keywords, keywords_found, consumed) ==
    IF ~pi_has_next(p)
    THEN [done |-> FALSE, p |-> p, found |-> keywords_found, consumed |-> consumed]
    ELSE LET token == pi_peek(p)
             q == pi_advance(p)
             expected == keywords[Len(keywords_found) + 1]
         IN  IF token_is_keyword(p, token, expected)
             THEN IF Len(keywords_found) + 1 = Len(keywords)
                  THEN [done |-> TRUE, p |-> q, found |-> Append(keywords_found, token),
                        consumed |-> consumed + 1]
                  ELSE kwseq_loop(q, keywords, Append(keywords_found, token), consumed + 1)
             ELSE [done |-> FALSE, p |-> q, found |-> keywords_found,
                   consumed |-> consumed + 1]

\* A variant of _maybe_consume_keyword_sequence that winds back one step per
\* keyword found, not per token consumed
maybe_consume_keyword_sequence_found_only(p, keywords) ==
    LET r == kwseq_loop(p, keywords, <<>>, 0)
    IN  IF r.done
        THEN Ok(r.p, KeywordSequence([i \in 1..Len(r.found) |->
                                         Keyword(r.found[i], r.found[i].text)]))
        ELSE Ok([r.p EXCEPT !.next_pos = @ - Len(r.found)], None)

_maybe_consume_keyword_sequence(p, keywords) ==
    LET r == kwseq_loop(p, keywords, <<>>, 0)
    IN  IF r.done
        THEN Ok(r.p, KeywordSequence([i \in 1..Len(r.found) |->
                                         Keyword(r.found[i], r.found[i].text)]))
        ELSE Ok([r.p EXCEPT !.next_pos = @ - r.consumed], None)

\* _parse_maybe_clause, the placeholder branch; the caller runs clause_parser
\* when this returns no node
_maybe_clause_placeholder(p) ==
    LET token == pi_peek(p)
    IN  IF token # None /\ token.typ = "placeholder"
        THEN Ok(pi_advance(p), PlaceholderClause(Placeholder(token, token.text)))
        ELSE Ok(p, None)

_maybe_parse_identifier(p) ==
    LET token == pi_peek(p)
    IN  IF token = None THEN Ok(p, None)
        ELSE IF token.typ # "identifier"
        THEN IF token.typ = "string"
                /\ token.text[1] = get_identifier_delimiter(p.dialect)
                /\ token.text[Len(token.text)] = get_identifier_delimiter(p.dialect)
             THEN Ok(pi_advance(p),
                     Identifier(token, SubSeq(token.text, 2, Len(token.text) - 1)))
             ELSE Ok(p, None)
        ELSE Ok(pi_advance(p), Identifier(token, token.text))

_parse_identifier(p) ==
    LET r == next_or_else(p)
        token == r.node
    IN  IF r.err # "" THEN r
        ELSE IF token.typ = "identifier" THEN Ok(r.p, Identifier(token, token.text))
        ELSE IF token.typ = "string"
                /\ token.text[1] = get_identifier_delimiter(p.dialect)
                /\ token.text[Len(token.text)] = get_identifier_delimiter(p.dialect)
        THEN Ok(r.p, Identifier(token, SubSeq(token.text, 2, Len(token.text) - 1)))
        ELSE from_unexpected_token(token)

(***************************************************************************)
(* Expressions (parser.py)                                                 *)
(*                                                                         *)
(* Branches that need a word or a punctuation outside the modelled         *)
(* vocabulary (CASE, CAST, GROUP_CONCAT, BINARY, joins, index hints,       *)
(* LATERAL, INTO OUTFILE, lock modes, dotted names) cannot be taken by the *)
(* inputs of the specifications below.  Where such a branch is guarded by  *)
(* a token the tokenizer can still produce, the model returns the outcome  *)
(* "Unmodelled", and ModelCovers checks that no run reaches it.            *)
(***************************************************************************)
Sp(a, b) == a \o <<" ">> \o b
K(text) == <<"keyword", text>>
P(text) == <<"punctuation", text>>

BINOP_PRECEDENCE ==
    << {P(<<"^">>)},
       {P(<<"*">>), P(<<"/">>), K(W.div), P(<<"%">>), P(<<"%", "%">>), K(W.mod)},
       {P(<<"-">>), P(<<"+">>)},
       {P(<<"<", "<">>), P(<<">", ">">>)},
       {P(<<"&">>)},
       {P(<<"|">>)},
       {P(<<"=">>), P(<<"<", "=", ">">>), P(<<">", "=">>), P(<<">">>), P(<<"<", "=">>),
        P(<<"<">>), P(<<"<", ">">>), P(<<"!", "=">>), K(W.is), K(Sp(W.is, W.not)),
        K(Sp(W.not, W.like)), K(W.like), K(Sp(W.not, W.regexp)), K(W.regexp),
        K(Sp(W.not, W.in)), K(W.in)},
       {K(W.and), P(<<"&", "&">>)},
       {K(W.xor)},
       {K(W.or), P(<<"|", "|">>)} >>
MIN_PRECEDENCE == Len(BINOP_PRECEDENCE) - 1
\* _PRECEDENCE_OF_OP[text]
PRECEDENCE_OF_OP(text) ==
    CHOOSE precedence \in 0..MIN_PRECEDENCE :
        \E op \in BINOP_PRECEDENCE[precedence + 1] : op[2] = text
MIN_BOOLEAN_PRECEDENCE == PRECEDENCE_OF_OP(W.and)
get_precedence(node) == PRECEDENCE_OF_OP(node.op.text)

RECURSIVE binop_loop(_, _, _, _)

_parse_expression(p) == parse_binop(p, MIN_PRECEDENCE)

\* the level of _BINOP_PRECEDENCE that holds the operator token, or -1
binop_level(token) ==
    IF \E k \in DOMAIN BINOP_PRECEDENCE : <<token.typ, token.text>> \in BINOP_PRECEDENCE[k]
    THEN (CHOOSE k \in DOMAIN BINOP_PRECEDENCE :
              <<token.typ, token.text>> \in BINOP_PRECEDENCE[k]) - 1
    ELSE -1

\* Below precedence 0 the call recurses on precedence - 1 before it reads any
\* token, so it never returns: Python raises RecursionError.  From precedence
\* 0 up, the recursion on precedence - 1 reads no token before it reaches
\* _parse_simple_expression, and then the while loops of the levels 0 to
\* precedence run in turn on its result.
_parse_binop(p, precedence) ==
    IF precedence < 0 THEN Fail("RecursionError", None)
    ELSE LET l == parse_simple_expression(p)
         IN  IF l.err # "" THEN l ELSE binop_loop(l.p, 0, precedence, l.node)

\* the while loops of the levels k to precedence of _parse_binop, entered with
\* left: a loop whose options do not hold the next token returns left to the
\* level above; the loop of level j, the level of the next token, consumes it
binop_loop(p, k, precedence, left) ==
    LET token == pi_peek(p)
        j == binop_level(token)
    IN  IF token = None THEN Ok(p, left)
        ELSE IF j >= k /\ j <= precedence
        THEN LET q == pi_advance(p)
                 op == IF token.typ = "punctuation" THEN Punctuation(token, token.text)
                       ELSE Keyword(token, token.text)
                 r == IF token.text \in {W.in, Sp(W.not, W.in)} THEN parse_in_rhs(q)
                      ELSE parse_binop(q, j - 1)
             IN  IF r.err # "" THEN r
                 ELSE binop_loop(r.p, j, precedence, BinOp(left, op, r.node))
        ELSE Ok(p, left)

\* _parse_with_trailing_comma and the loop of _parse_comma_separated;
\* parse_func is the name of the element parser
_comma_separated_loop(p, parse_func, nodes) ==
    LET r == call_parser(parse_func, p)
    IN  IF r.err # "" THEN r
        ELSE LET c == maybe_consume_punctuation(r.p, <<",">>)
                 new == Append(nodes, WithTrailingComma(r.node, c.node))
             IN  IF c.node = None THEN Ok(c.p, new)
                 ELSE comma_separated_loop(c.p, parse_func, new)
_parse_comma_separated(p, parse_func) == comma_separated_loop(p, parse_func, <<>>)

_parse_in_rhs(p) ==
    LET token == pi_peek(p)
    IN  IF token # None /\ token.typ = "placeholder"
        THEN Ok(pi_advance(p), Placeholder(token, token.text))
        ELSE LET left == expect_punctuation(p, <<"(">>)
             IN  IF left.err # "" THEN left
                 ELSE IF next_is_keyword(left.p, W.select) \/ next_is_keyword(left.p, W.with)
                 THEN parse_subselect(pi_wind_back(left.p), TRUE)
                 ELSE LET exprs == parse_comma_separated(left.p, "parse_expression")
                      IN  IF exprs.err # "" THEN exprs
                          ELSE LET right == expect_punctuation(exprs.p, <<")">>)
                               IN  IF right.err # "" THEN right
                                   ELSE Ok(right.p,
                                           ExprList(left.node, exprs.node, right.node))

_parse_function_call(p, callee) ==
    LET left_paren == expect_punctuation(p, <<"(">>)
    IN  IF left_paren.err # "" THEN left_paren
        ELSE LET args == IF ~next_is_punctuation(left_paren.p, <<")">>)
                         THEN parse_comma_separated(left_paren.p, "parse_expression")
                         ELSE Ok(left_paren.p, <<>>)
             IN  IF args.err # "" THEN args
                 ELSE LET right_paren == expect_punctuation(args.p, <<")">>)
                      IN  IF right_paren.err # "" THEN right_paren
                          ELSE Ok(right_paren.p,
                                  FunctionCall(callee, left_paren.node, args.node,
                                               right_paren.node))

_parse_identifier_expression(p, identifier) ==
    IF next_is_punctuation(p, <<"(">>) THEN parse_function_call(p, identifier)
    ELSE IF next_is_punctuation(p, <<".">>) THEN Fail("Unmodelled", None)
    ELSE Ok(p, identifier)

_parse_simple_expression(p) ==
    LET r == next_or_else(p)
        token == r.node
        q == r.p
    IN  IF r.err # "" THEN r
        ELSE IF token.typ = "punctuation" /\ token.text = <<"*">> THEN Ok(q, Star(token))
        ELSE IF token.typ = "punctuation" /\ token.text = <<"(">>
        THEN IF next_is_keyword(q, W.select) \/ next_is_keyword(q, W.with)
             THEN parse_subselect(pi_wind_back(q), TRUE)
             ELSE LET inner == parse_expression(q)
                  IN  IF inner.err # "" THEN inner
                      ELSE LET right == expect_punctuation(inner.p, <<")">>)
                           IN  IF right.err # "" THEN right
                               ELSE Ok(right.p,
                                       Parenthesized(Punctuation(token, <<"(">>),
                                                     inner.node, right.node))
        ELSE IF token.typ = "punctuation" /\ token.text \in {<<"-">>, <<"~">>}
        THEN LET operand == parse_simple_expression(q)
             IN  IF operand.err # "" THEN operand
                 ELSE Ok(operand.p, UnaryOp(Punctuation(token, token.text), operand.node))
        ELSE IF token.typ = "identifier"
        THEN parse_identifier_expression(q, Identifier(token, token.text))
        ELSE IF token.typ = "number" THEN Ok(q, NumericLiteral(token, token.text))
        ELSE IF token.typ = "placeholder" THEN Ok(q, Placeholder(token, token.text))
        ELSE IF token.typ = "string"
        THEN LET text == SubSeq(token.text, 2, Len(token.text) - 1)
             IN  IF token.text[1] = get_identifier_delimiter(p.dialect)
                 THEN parse_identifier_expression(q, Identifier(token, text))
                 ELSE Ok(q, StringLiteral(token, text))
        ELSE IF token.typ = "keyword" /\ token.text = W.null
        THEN Ok(q, NullExpression(Keyword(token, token.text)))
        ELSE IF token.typ = "keyword" /\ token.text = W.distinct
        THEN LET expr == parse_simple_expression(q)
             IN  IF expr.err # "" THEN expr
                 ELSE Ok(expr.p, Distinct(Keyword(token, token.text), expr.node))
        ELSE IF token.typ = "keyword" /\ token.text = W.not
        THEN LET expr == parse_simple_expression(q)
             IN  IF expr.err # "" THEN expr
                 ELSE Ok(expr.p, Not(Keyword(token, token.text), expr.node))
        ELSE IF token.typ = "keyword" /\ next_is_punctuation(q, <<"(">>)
        THEN parse_function_call(q, KeywordIdentifier(Keyword(token, token.text)))
        ELSE from_unexpected_token(token)

(***************************************************************************)
(* Clauses and statements (parser.py)                                      *)
(***************************************************************************)
_parse_select_expr(p) ==
    LET expr == parse_expression(p)
    IN  IF expr.err # "" THEN expr
        ELSE LET as_kw == maybe_consume_keyword(expr.p, W.as)
             IN  IF as_kw.node = None THEN Ok(as_kw.p, SelectExpr(expr.node, None, None))
                 ELSE LET alias == parse_identifier(as_kw.p)
                      IN  IF alias.err # "" THEN alias
                          ELSE Ok(alias.p, SelectExpr(expr.node, as_kw.node, alias.node))

_parse_order_by_expr(p) ==
    LET expr == parse_expression(p)
    IN  IF expr.err # "" THEN expr
        ELSE LET asc == maybe_consume_keyword(expr.p, W.asc)
                 direction == IF asc.node = None THEN maybe_consume_keyword(asc.p, W.desc)
                              ELSE asc
             IN  Ok(direction.p, OrderByExpr(expr.node, direction.node))
_parse_order_by_list(p) == parse_comma_separated(p, "parse_order_by_expr")

\* _parse_value: DEFAULT is outside the vocabulary
_parse_assignment(p) ==
    LET colname == parse_identifier(p)
    IN  IF colname.err # "" THEN colname
        ELSE LET punc == expect_punctuation(colname.p, <<"=">>)
             IN  IF punc.err # "" THEN punc
                 ELSE LET value == parse_expression(punc.p)
                      IN  IF value.err # "" THEN value
                          ELSE Ok(value.p, Assignment(colname.node, punc.node, value.node))

_parse_table_name(p) ==
    LET identifier == parse_identifier(p)
    IN  IF identifier.err # "" THEN identifier
        ELSE IF next_is_punctuation(identifier.p, <<".">>) THEN Fail("Unmodelled", None)
        ELSE Ok(identifier.p, SimpleTableName(identifier.node))

\* the loop over seqs of _expect_one_of_kwseqs, from seqs[i]; p.pi.next()
\* raises StopIteration at the end of the token list
_expect_one_of_kwseqs(p, seqs, i) ==
    IF i > Len(seqs)
    THEN IF pi_has_next(p) THEN from_unexpected_token(pi_peek(p))
         ELSE Fail("StopIteration", None)
    ELSE Bind(maybe_consume_keyword_sequence(p, seqs[i]), LAMBDA kwseq :
         IF kwseq.node # None THEN kwseq ELSE expect_one_of_kwseqs(p, seqs, i + 1))

\* the loop of _parse_comma_separated_allow_empty
_comma_separated_allow_empty_loop(p, parse_func, nodes) ==
    Bind(call_parser(parse_func, p), LAMBDA inner :
    IF inner.err # "" THEN inner
    ELSE IF inner.node = None
    THEN IF nodes = <<>> THEN Ok(inner.p, <<>>)
         ELSE Bind(pi_peek_or_raise(inner.p), LAMBDA token :
              IF token.err # "" THEN token ELSE from_unexpected_token(token.node))
    ELSE Bind(maybe_consume_punctuation(inner.p, <<",">>), LAMBDA comma :
         Bind(Append(nodes, WithTrailingComma(inner.node, comma.node)), LAMBDA new :
         IF comma.node = None THEN Ok(comma.p, new)
         ELSE comma_separated_allow_empty_loop(comma.p, parse_func, new))))

_parse_index(p) ==
    Bind(next_or_else(p), LAMBDA r :
    IF r.err # "" THEN r
    ELSE Bind(r.node, LAMBDA token :
         IF token.typ = "identifier" THEN Ok(r.p, Identifier(token, token.text))
         ELSE IF token.typ = "string"
                 /\ token.text[1] = get_identifier_delimiter(p.dialect)
                 /\ token.text[Len(token.text)] = get_identifier_delimiter(p.dialect)
         THEN Ok(r.p, Identifier(token, SubSeq(token.text, 2, Len(token.text) - 1)))
         ELSE IF token.typ # "string" /\ token_is_keyword(p, token, W.primary)
         THEN Ok(r.p, Keyword(token, token.text))
         ELSE from_unexpected_token(token)))

\* _parse_index_hint after the kind keyword; p is the parser after it
index_hint_rest(p, intro_kw, kind_kw) ==
    Bind(maybe_consume_keyword(p, W.for), LAMBDA for_kw :
    Bind(IF for_kw.node # None
         THEN expect_one_of_kwseqs(for_kw.p, << <<W.join>>, <<W.order, W.by>>,
                                               <<W.group, W.by>> >>, 1)
         ELSE Ok(for_kw.p, None), LAMBDA for_what :
    IF for_what.err # "" THEN for_what
    ELSE Bind(expect_punctuation(for_what.p, <<"(">>), LAMBDA left_paren :
    IF left_paren.err # "" THEN left_paren
    ELSE IF next_is_punctuation(left_paren.p, <<")">>)
    THEN Bind(expect_punctuation(left_paren.p, <<")">>), LAMBDA right_paren :
         IF intro_kw.text # W.use THEN Fail("ParseError", right_paren.node.token)
         ELSE Ok(right_paren.p,
                 IndexHint(intro_kw, kind_kw, for_kw.node, for_what.node, left_paren.node,
                           <<>>, right_paren.node)))
    ELSE Bind(parse_comma_separated(left_paren.p, "parse_index"), LAMBDA index_list :
         IF index_list.err # "" THEN index_list
         ELSE Bind(expect_punctuation(index_list.p, <<")">>), LAMBDA right_paren :
              IF right_paren.err # "" THEN right_paren
              ELSE Ok(right_paren.p,
                      IndexHint(intro_kw, kind_kw, for_kw.node, for_what.node,
                                left_paren.node, index_list.node, right_paren.node)))))))

_parse_index_hint(p) ==
    IF ~\E kw \in {W.use, W.ignore, W.force} : next_is_keyword(p, kw) THEN Ok(p, None)
    ELSE Bind(pi_advance(p), LAMBDA p1 :
         IF ~\E kw \in {W.index, W.key} : next_is_keyword(p1, kw)
         THEN Ok(pi_wind_back(p1), None)
         ELSE index_hint_rest(pi_advance(p1), Keyword(pi_peek(p), pi_peek(p).text),
                              Keyword(pi_peek(p1), pi_peek(p1).text)))

\* LATERAL is outside the vocabulary
_parse_table_factor(p) ==
    IF next_is_punctuation(p, <<"(">>) THEN Fail("Unmodelled", None)
    ELSE Bind(parse_table_name(p), LAMBDA table_name :
         IF table_name.err # "" THEN table_name
         ELSE Bind(maybe_consume_keyword(table_name.p, W.as), LAMBDA as_kw :
              Bind(maybe_parse_identifier(as_kw.p), LAMBDA alias :
              Bind(comma_separated_allow_empty_loop(alias.p, "parse_index_hint", <<>>),
                   LAMBDA index_hint_list :
              IF index_hint_list.err # "" THEN index_hint_list
              ELSE Ok(index_hint_list.p,
                      SimpleTableFactor(table_name.node, as_kw.node, alias.node,
                                        index_hint_list.node))))))

_parse_join_specification(p) ==
    Bind(maybe_consume_keyword(p, W.on), LAMBDA on_kw :
    IF on_kw.node # None
    THEN Bind(parse_expression(on_kw.p), LAMBDA expr :
         IF expr.err # "" THEN expr ELSE Ok(expr.p, JoinOn(on_kw.node, expr.node)))
    ELSE Bind(maybe_consume_keyword(p, W.using), LAMBDA using_kw :
         IF using_kw.node = None THEN Ok(p, None)
         ELSE Bind(expect_punctuation(using_kw.p, <<"(">>), LAMBDA left_paren :
              IF left_paren.err # "" THEN left_paren
              ELSE Bind(parse_comma_separated(left_paren.p, "parse_identifier"), LAMBDA jcl :
                   IF jcl.err # "" THEN jcl
                   ELSE Bind(expect_punctuation(jcl.p, <<")">>), LAMBDA right_paren :
                        IF right_paren.err # "" THEN right_paren
                        ELSE Ok(right_paren.p,
                                JoinUsing(using_kw.node, left_paren.node, jcl.node,
                                          right_paren.node)))))))

JOIN_KEYWORDS ==
    {W.inner, W.cross, W.join, W.straight_join, W.left, W.right, W.outer, W.natural}

\* left_right and inner_outer stay None after NATURAL INNER
_parse_natural_join(p, left) ==
    Bind(expect_keyword(p, W.natural), LAMBDA natural_kw :
    IF natural_kw.err # "" THEN natural_kw
    ELSE Bind(maybe_consume_keyword(natural_kw.p, W.inner), LAMBDA inner_kw :
    Bind(maybe_consume_keyword(inner_kw.p, W.left), LAMBDA left_kw :
    Bind(IF inner_kw.node # None THEN inner_kw
         ELSE IF left_kw.node # None THEN left_kw
         ELSE maybe_consume_keyword(left_kw.p, W.right), LAMBDA left_right :
    Bind(IF inner_kw.node # None THEN inner_kw
         ELSE maybe_consume_keyword(left_right.p, W.outer), LAMBDA inner_outer :
    Bind(expect_keyword(inner_outer.p, W.join), LAMBDA join_kw :
    IF join_kw.err # "" THEN join_kw
    ELSE Bind(parse_table_factor(join_kw.p), LAMBDA right :
         IF right.err # "" THEN right
         ELSE Ok(right.p,
                 NaturalJoinedTable(left, natural_kw.node,
                                    IF inner_kw.node # None THEN None ELSE left_right.node,
                                    inner_outer.node, join_kw.node, right.node)))))))))

_parse_left_right_join(p, left) ==
    Bind(maybe_consume_keyword(p, W.left), LAMBDA left_kw :
    Bind(IF left_kw.node # None THEN left_kw ELSE expect_keyword(p, W.right), LAMBDA left_right :
    IF left_right.err # "" THEN left_right
    ELSE Bind(maybe_consume_keyword(left_right.p, W.outer), LAMBDA outer_kw :
    Bind(expect_keyword(outer_kw.p, W.join), LAMBDA join_kw :
    IF join_kw.err # "" THEN join_kw
    ELSE Bind(parse_table_reference(join_kw.p), LAMBDA right :
    IF right.err # "" THEN right
    ELSE Bind(parse_join_specification(right.p), LAMBDA join_specification :
    IF join_specification.err # "" THEN join_specification
    ELSE IF join_specification.node = None
    THEN Bind(pi_peek_or_raise(join_specification.p), LAMBDA token :
         IF token.err # "" THEN token ELSE from_unexpected_token(token.node))
    ELSE Ok(join_specification.p,
            LeftRightJoinedTable(left, left_right.node, outer_kw.node, join_kw.node,
                                 right.node, join_specification.node))))))))

_parse_simple_join(p, left) ==
    Bind(maybe_consume_keyword(p, W.inner), LAMBDA inner_kw :
    Bind(IF inner_kw.node # None THEN inner_kw
         ELSE maybe_consume_keyword(p, W.cross), LAMBDA inner_cross :
    Bind(maybe_consume_keyword(inner_cross.p, W.straight_join), LAMBDA straight :
    Bind(IF straight.node = None THEN expect_keyword(inner_cross.p, W.join)
         ELSE straight, LAMBDA join_kw :
    IF join_kw.err # "" THEN join_kw
    ELSE IF straight.node # None /\ inner_cross.node # None
    THEN Fail("ParseError", join_kw.node.token)
    ELSE Bind(parse_table_factor(join_kw.p), LAMBDA right :
    IF right.err # "" THEN right
    ELSE Bind(parse_join_specification(right.p), LAMBDA join_specification :
    IF join_specification.err # "" THEN join_specification
    ELSE Ok(join_specification.p,
            SimpleJoinedTable(left, inner_cross.node, join_kw.node, right.node,
                              join_specification.node))))))))

\* the while loop of _parse_table_reference
_table_reference_loop(p, ref) ==
    IF ~\E kw \in JOIN_KEYWORDS : next_is_keyword(p, kw) THEN Ok(p, ref)
    ELSE Bind(IF next_is_keyword(p, W.natural) THEN parse_natural_join(p, ref)
              ELSE IF next_is_keyword(p, W.left) \/ next_is_keyword(p, W.right)
              THEN parse_left_right_join(p, ref)
              ELSE parse_simple_join(p, ref), LAMBDA joined :
         IF joined.err # "" THEN joined ELSE table_reference_loop(joined.p, joined.node))

_parse_table_reference(p) ==
    Bind(parse_table_factor(p), LAMBDA ref :
    IF ref.err # "" THEN ref ELSE table_reference_loop(ref.p, ref.node))
_parse_table_references(p) == parse_comma_separated(p, "parse_table_reference")

_parse_from_clause(p, require_from) ==
    LET from_kw == maybe_consume_keyword(p, W.from)
    IN  IF from_kw.node # None \/ ~require_from
        THEN LET table == parse_table_references(from_kw.p)
             IN  IF table.err # "" THEN table
                 ELSE Ok(table.p, FromClause(from_kw.node, table.node))
        ELSE Ok(p, None)

_parse_where_clause(p) ==
    LET kw == maybe_consume_keyword(p, W.where)
    IN  IF kw.node = None THEN Ok(p, None)
        ELSE LET expr == parse_expression(kw.p)
             IN  IF expr.err # "" THEN expr ELSE Ok(expr.p, WhereClause(kw.node, expr.node))

_parse_having_clause(p) ==
    LET kw == maybe_consume_keyword(p, W.having)
    IN  IF kw.node = None THEN Ok(p, None)
        ELSE LET expr == parse_expression(kw.p)
             IN  IF expr.err # "" THEN expr ELSE Ok(expr.p, HavingClause(kw.node, expr.node))

_parse_group_by_clause(p) ==
    LET kwseq == maybe_consume_keyword_sequence(p, <<W.group, W.by>>)
    IN  IF kwseq.node = None THEN Ok(kwseq.p, None)
        ELSE LET exprs == parse_order_by_list(kwseq.p)
             IN  IF exprs.err # "" THEN exprs
                 ELSE Ok(exprs.p, GroupByClause(kwseq.node, exprs.node))

_parse_order_by_clause(p, allowed) ==
    LET kwseq == maybe_consume_keyword_sequence(p, <<W.order, W.by>>)
    IN  IF kwseq.node = None THEN Ok(kwseq.p, None)
        ELSE IF ~allowed THEN from_disallowed(kwseq.node.keywords[1].token)
        ELSE LET exprs == parse_order_by_list(kwseq.p)
             IN  IF exprs.err # "" THEN exprs
                 ELSE Ok(exprs.p, OrderByClause(kwseq.node, exprs.node))

_parse_limit_clause(p, allowed) ==
    LET kw == maybe_consume_keyword(p, W.limit)
    IN  IF kw.node = None THEN Ok(p, None)
        ELSE IF ~allowed THEN from_disallowed(kw.node.token)
        ELSE LET expr == parse_simple_expression(kw.p)
             IN  IF expr.err # "" THEN expr ELSE Ok(expr.p, LimitClause(kw.node, expr.node))

_parse_select_limit_clause(p) ==
    Bind(maybe_consume_keyword(p, W.limit), LAMBDA kw :
    Bind(maybe_consume_keyword(kw.p, W.all), LAMBDA all_kw :
    Bind(IF all_kw.node # None
         THEN IF ~supports_feature(p.dialect, "limit_all")
              THEN from_disallowed(all_kw.node.token)
              ELSE Ok(all_kw.p, All(all_kw.node))
         ELSE parse_simple_expression(all_kw.p), LAMBDA expr :
    IF kw.node = None THEN Ok(p, None)
    ELSE IF expr.err # "" THEN expr
    ELSE IF next_is_punctuation(expr.p, <<",">>)
    THEN Bind(expect_punctuation(expr.p, <<",">>), LAMBDA offset_leaf :
         IF ~supports_feature(p.dialect, "comma_offset")
         THEN from_disallowed(offset_leaf.node.token)
         ELSE IF expr.node.k = "All" THEN from_disallowed(offset_leaf.node.token)
         ELSE Bind(parse_simple_expression(offset_leaf.p), LAMBDA count :
              IF count.err # "" THEN count
              ELSE Ok(count.p, SelectLimitClause(kw.node, count.node, expr.node,
                                                 offset_leaf.node))))
    ELSE Bind(maybe_consume_keyword(expr.p, W.offset), LAMBDA offset_leaf :
         IF offset_leaf.node = None
         THEN Ok(offset_leaf.p, SelectLimitClause(kw.node, expr.node, None, None))
         ELSE Bind(parse_simple_expression(offset_leaf.p), LAMBDA offset :
              IF offset.err # "" THEN offset
              ELSE Ok(offset.p, SelectLimitClause(kw.node, expr.node,
                                                  offset.node, offset_leaf.node)))))))

\* _parse_maybe_clause(p, clause_parser), clause_parser given by its outcome
_parse_maybe_clause(p, clause) ==
    LET ph == maybe_clause_placeholder(p) IN IF ph.node # None THEN ph ELSE clause

\* _parse_into_option and _parse_lock_mode: INTO is outside the vocabulary
\* and no input has FOR after its clauses, so the clause parser returns None
_parse_into_option(p) == Ok(p, None)
_parse_lock_mode(p) == Ok(p, None)

_maybe_parse_col_name_list(p) ==
    IF next_is_punctuation(p, <<"(">>)
    THEN LET open_paren == expect_punctuation(p, <<"(">>)
             col_names == parse_comma_separated(open_paren.p, "parse_identifier")
         IN  IF col_names.err # "" THEN col_names
             ELSE LET close_paren == expect_punctuation(col_names.p, <<")">>)
                  IN  IF close_paren.err # "" THEN close_paren
                      ELSE Ok(close_paren.p,
                              ColNameList(open_paren.node, col_names.node, close_paren.node))
    ELSE Ok(p, None)

_parse_cte(p) ==
    LET name == parse_identifier(p)
    IN  IF name.err # "" THEN name
        ELSE LET col_names == maybe_parse_col_name_list(name.p)
             IN  IF col_names.err # "" THEN col_names
                 ELSE LET as_kw == expect_keyword(col_names.p, W.as)
                      IN  IF as_kw.err # "" THEN as_kw
                          ELSE LET subquery == parse_subselect(as_kw.p, TRUE)
                               IN  IF subquery.err # "" THEN subquery
                                   ELSE Ok(subquery.p,
                                           CommonTableExpression(name.node, col_names.node,
                                                                 as_kw.node, subquery.node))

_parse_with_clause(p) ==
    LET kw == expect_keyword(p, W.with)
    IN  IF kw.err # "" THEN kw
        ELSE LET recursive_kw == maybe_consume_keyword(kw.p, W.recursive)
                 ctes == parse_comma_separated(recursive_kw.p, "parse_cte")
             IN  IF ctes.err # "" THEN ctes
                 ELSE Ok(ctes.p, WithClause(kw.node, recursive_kw.node, ctes.node))

_call_parser(parse_func, p) ==
    CASE parse_func = "parse_expression" -> parse_expression(p)
      [] parse_func = "parse_select_expr" -> parse_select_expr(p)
      [] parse_func = "parse_order_by_expr" -> parse_order_by_expr(p)
      [] parse_func = "parse_identifier" -> parse_identifier(p)
      [] parse_func = "parse_assignment" -> parse_assignment(p)
      [] parse_func = "parse_table_reference" -> parse_table_reference(p)
      [] parse_func = "parse_index_hint" -> parse_index_hint(p)
      [] parse_func = "parse_index" -> parse_index(p)
      [] parse_func = "parse_cte" -> parse_cte(p)

\* the loop over dialect.get_select_modifiers() in _parse_single_select
_select_modifiers_loop(p, groups, i, modifiers) ==
    IF i > Len(groups) THEN Ok(p, modifiers)
    ELSE LET kw == maybe_consume_one_of_keywords(p, groups[i])
         IN  select_modifiers_loop(kw.p, groups, i + 1,
                                   IF kw.node # None THEN Append(modifiers, kw.node)
                                   ELSE modifiers)

\* Select(leading_comments = (), ...)
Select(with_clause, select_kw, modifiers, select_exprs, into1, from_clause, where,
         group_by, having, order_by, limit, into2, lock_mode, into3) ==
    [k |-> "Select", leading_comments |-> <<>>, with_clause |-> with_clause,
     select_kw |-> select_kw, modifiers |-> modifiers, select_exprs |-> select_exprs,
     into_before_from |-> into1, from_clause |-> from_clause, where |-> where,
     group_by |-> group_by, having |-> having, order_by |-> order_by, limit |-> limit,
     into_before_lock_mode |-> into2, lock_mode |-> lock_mode, into |-> into3]

_parse_single_select(p) ==
    Bind(IF supports_feature(p.dialect, "with_clause") /\ next_is_keyword(p, W.with)
         THEN parse_with_clause(p) ELSE Ok(p, None), LAMBDA with_clause :
    Bind(expect_keyword(with_clause.p, W.select), LAMBDA select :
    Bind(select_modifiers_loop(select.p, get_select_modifiers(p.dialect), 1, <<>>), LAMBDA modifiers :
    Bind(parse_comma_separated(modifiers.p, "parse_select_expr"), LAMBDA select_exprs :
    Bind(parse_maybe_clause(select_exprs.p, parse_into_option(select_exprs.p)), LAMBDA into1 :
    Bind(parse_maybe_clause(into1.p, parse_from_clause(into1.p, TRUE)), LAMBDA from_clause :
    Bind(parse_maybe_clause(from_clause.p, parse_where_clause(from_clause.p)), LAMBDA where_clause :
    Bind(parse_maybe_clause(where_clause.p,
                            parse_group_by_clause(where_clause.p)), LAMBDA group_by_clause :
    Bind(parse_maybe_clause(group_by_clause.p,
                            parse_having_clause(group_by_clause.p)), LAMBDA having_clause :
    Bind(parse_maybe_clause(having_clause.p,
                            parse_order_by_clause(having_clause.p, TRUE)), LAMBDA order_by_clause :
    Bind(parse_maybe_clause(order_by_clause.p,
                            parse_select_limit_clause(order_by_clause.p)), LAMBDA select_limit_clause :
    Bind(parse_maybe_clause(select_limit_clause.p,
                            parse_into_option(select_limit_clause.p)), LAMBDA into2 :
    Bind(parse_maybe_clause(into2.p, parse_lock_mode(into2.p)), LAMBDA lock_mode :
    Bind(parse_maybe_clause(lock_mode.p, parse_into_option(lock_mode.p)), LAMBDA into3 :
    IF with_clause.err # "" THEN with_clause
    ELSE IF select.err # "" THEN select
    ELSE IF select_exprs.err # "" THEN select_exprs
    ELSE IF from_clause.err # "" THEN from_clause
    ELSE IF where_clause.err # "" THEN where_clause
    ELSE IF group_by_clause.err # "" THEN group_by_clause
    ELSE IF having_clause.err # "" THEN having_clause
    ELSE IF order_by_clause.err # "" THEN order_by_clause
    ELSE IF select_limit_clause.err # "" THEN select_limit_clause
    ELSE Ok(into3.p,
            Select(with_clause.node, select.node, modifiers.node, select_exprs.node,
                     into1.node, from_clause.node, where_clause.node,
                     group_by_clause.node, having_clause.node, order_by_clause.node,
                     select_limit_clause.node, into2.node, lock_mode.node, into3.node))))))))))))))))

_parse_subselect(p, require_parens) ==
    IF ~require_parens
    THEN LET select == parse_single_select(p)
         IN  IF select.err # "" THEN select
             ELSE Ok(select.p, Subselect(None, select.node, None))
    ELSE LET left == expect_punctuation(p, <<"(">>)
             select == parse_single_select(left.p)
             right == expect_punctuation(select.p, <<")">>)
         IN  IF left.err # "" THEN left
             ELSE IF select.err # "" THEN select
             ELSE IF right.err # "" THEN right
             ELSE Ok(right.p, Subselect(left.node, select.node, right.node))

\* the while loop of _parse_select
_union_loop(p, rest) ==
    IF ~next_is_keyword(p, W.union) THEN Ok(p, rest)
    ELSE LET union_kw == expect_keyword(p, W.union)
             kw == maybe_consume_one_of_keywords(union_kw.p, <<W.all, W.distinct>>)
             next_select == parse_subselect(kw.p, next_is_punctuation(kw.p, <<"(">>))
         IN  IF union_kw.err # "" THEN union_kw
             ELSE IF next_select.err # "" THEN next_select
             ELSE union_loop(next_select.p,
                             Append(rest, UnionEntry(union_kw.node, kw.node, next_select.node)))

_parse_select(p) ==
    LET paren == next_is_punctuation(p, <<"(">>)
        sub == parse_subselect(p, TRUE)
        select_stmt == parse_single_select(p)
        first == IF paren THEN sub
                 ELSE IF select_stmt.err # "" THEN select_stmt
                 ELSE Ok(select_stmt.p, Subselect(None, select_stmt.node, None))
        rest == union_loop(first.p, <<>>)
        order_by_clause == parse_maybe_clause(rest.p, parse_order_by_clause(rest.p, TRUE))
        select_limit_clause == parse_maybe_clause(order_by_clause.p,
                                                  parse_select_limit_clause(order_by_clause.p))
    IN  IF first.err # "" THEN first
        ELSE IF ~paren /\ ~next_is_keyword(select_stmt.p, W.union) THEN select_stmt
        ELSE IF rest.err # "" THEN rest
        ELSE IF order_by_clause.err # "" THEN order_by_clause
        ELSE IF select_limit_clause.err # "" THEN select_limit_clause
        ELSE Ok(select_limit_clause.p,
                UnionStatement(<<>>, first.node, rest.node, order_by_clause.node,
                               select_limit_clause.node))

_parse_set_clause(p) ==
    LET kw == expect_keyword(p, W.set)
        assignments == parse_comma_separated(kw.p, "parse_assignment")
    IN  IF kw.err # "" THEN kw
        ELSE IF assignments.err # "" THEN assignments
        ELSE Ok(assignments.p, SetClause(kw.node, assignments.node))

_parse_update(p) ==
    Bind(expect_keyword(p, W.update), LAMBDA kw :
    Bind(parse_table_reference(kw.p), LAMBDA table :
    Bind(parse_set_clause(table.p), LAMBDA set_clause :
    Bind(parse_maybe_clause(set_clause.p, parse_where_clause(set_clause.p)), LAMBDA where_clause :
    Bind(supports_feature(p.dialect, "update_limit"), LAMBDA allow_limit :
    Bind(IF allow_limit
         THEN parse_maybe_clause(where_clause.p,
                                 parse_order_by_clause(where_clause.p, TRUE))
         ELSE parse_order_by_clause(where_clause.p, FALSE), LAMBDA order_by_clause :
    Bind(IF allow_limit
         THEN parse_maybe_clause(order_by_clause.p,
                                 parse_limit_clause(order_by_clause.p, TRUE))
         ELSE parse_limit_clause(order_by_clause.p, FALSE), LAMBDA limit_clause :
    IF kw.err # "" THEN kw
    ELSE IF table.err # "" THEN table
    ELSE IF set_clause.err # "" THEN set_clause
    ELSE IF where_clause.err # "" THEN where_clause
    ELSE IF order_by_clause.err # "" THEN order_by_clause
    ELSE IF limit_clause.err # "" THEN limit_clause
    ELSE Ok(limit_clause.p,
            Update(<<>>, None, kw.node, table.node, set_clause.node, where_clause.node,
                   order_by_clause.node, limit_clause.node)))))))))

\* _parse_table_name_with_comma and the loop of _parse_using_clause
_using_loop(p, tables) ==
    LET name == parse_identifier(p)
        comma == maybe_consume_punctuation(name.p, <<",">>)
        new == Append(tables, WithTrailingComma(name.node, comma.node))
    IN  IF name.err # "" THEN name
        ELSE IF comma.node = None THEN Ok(comma.p, new)
        ELSE using_loop(comma.p, new)

_parse_using_clause(p, allowed) ==
    LET kw == maybe_consume_keyword(p, W.using)
        tables == using_loop(kw.p, <<>>)
    IN  IF kw.node = None THEN Ok(p, None)
        ELSE IF ~allowed THEN from_disallowed(kw.node.token)
        ELSE IF tables.err # "" THEN tables
        ELSE Ok(tables.p, UsingClause(kw.node, tables.node))

_parse_delete(p) ==
    Bind(expect_keyword(p, W.delete), LAMBDA delete :
    Bind(parse_from_clause(delete.p,
                           supports_feature(p.dialect, "require_from_for_delete")), LAMBDA from_clause :
    Bind(next_or_else(delete.p), LAMBDA missing :
    Bind(IF supports_feature(p.dialect, "delete_using")
         THEN parse_maybe_clause(from_clause.p,
                                 parse_using_clause(from_clause.p, TRUE))
         ELSE parse_using_clause(from_clause.p, FALSE), LAMBDA using_clause :
    Bind(parse_maybe_clause(using_clause.p, parse_where_clause(using_clause.p)), LAMBDA where_clause :
    Bind(supports_feature(p.dialect, "update_limit"), LAMBDA allow_limit :
    Bind(IF allow_limit
         THEN parse_maybe_clause(where_clause.p,
                                 parse_order_by_clause(where_clause.p, TRUE))
         ELSE parse_order_by_clause(where_clause.p, FALSE), LAMBDA order_by_clause :
    Bind(IF allow_limit
         THEN parse_maybe_clause(order_by_clause.p,
                                 parse_limit_clause(order_by_clause.p, TRUE))
         ELSE parse_limit_clause(order_by_clause.p, FALSE), LAMBDA limit_clause :
    IF delete.err # "" THEN delete
    ELSE IF from_clause.err # "" THEN from_clause
    ELSE IF from_clause.node = None
    THEN IF missing.err # "" THEN missing ELSE from_unexpected_token(missing.node)
    ELSE IF using_clause.err # "" THEN using_clause
    ELSE IF where_clause.err # "" THEN where_clause
    ELSE IF order_by_clause.err # "" THEN order_by_clause
    ELSE IF limit_clause.err # "" THEN limit_clause
    ELSE Ok(limit_clause.p,
            Delete(<<>>, None, delete.node, from_clause.node, using_clause.node,
                   where_clause.node, order_by_clause.node, limit_clause.node))))))))))

_assert_done(p) ==
    LET remaining == pi_peek_or_raise(p)
    IN  IF remaining.err # "" THEN remaining
        ELSE IF remaining.node.typ # "eof" THEN from_unexpected_token(remaining.node)
        ELSE Ok(p, None)

\* _parse_with; dataclasses.replace(statement, with_clause=with_clause)
_parse_with(p) ==
    LET with_clause == parse_with_clause(p)
        token == pi_peek_or_raise(with_clause.p)
        statement == parse_statement(with_clause.p)
    IN  IF with_clause.err # "" THEN with_clause
        ELSE IF token.err # "" THEN token
        ELSE IF statement.err # "" THEN statement
        ELSE IF statement.node.k \in {"Select", "Update", "Delete"}
        THEN Ok(statement.p, [statement.node EXCEPT !.with_clause = with_clause.node])
        ELSE from_unexpected_token(token.node)

\* _VERB_TO_PARSER restricted to Words; SET and DESC select statements that
\* are not modelled
VERB_TO_PARSER == {W.select, W.update, W.delete, W.with}
UnmodelledVerbs == {W.set, W.desc}
verb_parser(verb, p) ==
    CASE verb = W.select -> parse_select(p)
      [] verb = W.update -> parse_update(p)
      [] verb = W.delete -> parse_delete(p)
      [] verb = W.with -> parse_with(p)

_parse_statement(p) ==
    LET first == pi_peek(p)
        verb == IF first.typ = "keyword" THEN first.text ELSE upper(first.text)
        statement == verb_parser(verb, p)
        done == assert_done(statement.p)
        rest == parse_statement(pi_advance(p))
    IN  IF first = None THEN Fail("ValueError", None)
        ELSE IF first.typ \in {"keyword", "identifier"}
        THEN IF verb \in UnmodelledVerbs THEN Fail("Unmodelled", None)
             ELSE IF verb \notin VERB_TO_PARSER THEN Fail("ParseError", first)
             ELSE IF statement.err # "" THEN statement
             ELSE IF done.err # "" THEN done
             ELSE statement
        ELSE IF first.typ = "comment"
        THEN IF rest.err # "" THEN rest
             ELSE Ok(rest.p, [rest.node EXCEPT !.leading_comments =
                                  <<Comment(first, first.text)>> \o @])
        ELSE IF first.typ = "punctuation" /\ first.text = <<"(">> THEN parse_select(p)
        ELSE Fail("ParseError", first)

parser_call(f, args) ==
    CASE f = "next_or_else" -> _next_or_else(args[1])
      [] f = "maybe_consume_punctuation" -> _maybe_consume_punctuation(args[1], args[2])
      [] f = "expect_punctuation" -> _expect_punctuation(args[1], args[2])
      [] f = "token_is_keyword" -> _token_is_keyword(args[1], args[2], args[3])
      [] f = "expect_keyword" -> _expect_keyword(args[1], args[2])
      [] f = "maybe_consume_keyword" -> _maybe_consume_keyword(args[1], args[2])
      [] f = "maybe_consume_one_of_keywords" -> _maybe_consume_one_of_keywords(args[1], args[2])
      [] f = "kwseq_loop" -> _kwseq_loop(args[1], args[2], args[3], args[4])
      [] f = "maybe_consume_keyword_sequence" -> _maybe_consume_keyword_sequence(args[1], args[2])
      [] f = "maybe_clause_placeholder" -> _maybe_clause_placeholder(args[1])
      [] f = "maybe_parse_identifier" -> _maybe_parse_identifier(args[1])
      [] f = "parse_identifier" -> _parse_identifier(args[1])
      [] f = "parse_expression" -> _parse_expression(args[1])
      [] f = "parse_binop" -> _parse_binop(args[1], args[2])
      [] f = "comma_separated_loop" -> _comma_separated_loop(args[1], args[2], args[3])
      [] f = "parse_comma_separated" -> _parse_comma_separated(args[1], args[2])
      [] f = "parse_in_rhs" -> _parse_in_rhs(args[1])
      [] f = "parse_function_call" -> _parse_function_call(args[1], args[2])
      [] f = "parse_identifier_expression" -> _parse_identifier_expression(args[1], args[2])
      [] f = "parse_simple_expression" -> _parse_simple_expression(args[1])
      [] f = "parse_select_expr" -> _parse_select_expr(args[1])
      [] f = "parse_order_by_expr" -> _parse_order_by_expr(args[1])
      [] f = "parse_order_by_list" -> _parse_order_by_list(args[1])
      [] f = "parse_assignment" -> _parse_assignment(args[1])
      [] f = "parse_table_name" -> _parse_table_name(args[1])
      [] f = "parse_table_factor" -> _parse_table_factor(args[1])
      [] f = "expect_one_of_kwseqs" -> _expect_one_of_kwseqs(args[1], args[2], args[3])
      [] f = "comma_separated_allow_empty_loop" ->
             _comma_separated_allow_empty_loop(args[1], args[2], args[3])
      [] f = "parse_index" -> _parse_index(args[1])
      [] f = "parse_index_hint" -> _parse_index_hint(args[1])
      [] f = "parse_join_specification" -> _parse_join_specification(args[1])
      [] f = "parse_natural_join" -> _parse_natural_join(args[1], args[2])
      [] f = "parse_left_right_join" -> _parse_left_right_join(args[1], args[2])
      [] f = "parse_simple_join" -> _parse_simple_join(args[1], args[2])
      [] f = "table_reference_loop" -> _table_reference_loop(args[1], args[2])
      [] f = "parse_table_reference" -> _parse_table_reference(args[1])
      [] f = "parse_table_references" -> _parse_table_references(args[1])
      [] f = "parse_from_clause" -> _parse_from_clause(args[1], args[2])
      [] f = "parse_where_clause" -> _parse_where_clause(args[1])
      [] f = "parse_having_clause" -> _parse_having_clause(args[1])
      [] f = "parse_group_by_clause" -> _parse_group_by_clause(args[1])
      [] f = "parse_order_by_clause" -> _parse_order_by_clause(args[1], args[2])
      [] f = "parse_limit_clause" -> _parse_limit_clause(args[1], args[2])
      [] f = "parse_select_limit_clause" -> _parse_select_limit_clause(args[1])
      [] f = "parse_maybe_clause" -> _parse_maybe_clause(args[1], args[2])
      [] f = "parse_into_option" -> _parse_into_option(args[1])
      [] f = "parse_lock_mode" -> _parse_lock_mode(args[1])
      [] f = "maybe_parse_col_name_list" -> _maybe_parse_col_name_list(args[1])
      [] f = "parse_cte" -> _parse_cte(args[1])
      [] f = "parse_with_clause" -> _parse_with_clause(args[1])
      [] f = "call_parser" -> _call_parser(args[1], args[2])
      [] f = "select_modifiers_loop" -> _select_modifiers_loop(args[1], args[2], args[3], args[4])
      [] f = "parse_single_select" -> _parse_single_select(args[1])
      [] f = "parse_subselect" -> _parse_subselect(args[1], args[2])
      [] f = "union_loop" -> _union_loop(args[1], args[2])
      [] f = "parse_select" -> _parse_select(args[1])
      [] f = "parse_set_clause" -> _parse_set_clause(args[1])
      [] f = "parse_update" -> _parse_update(args[1])
      [] f = "using_loop" -> _using_loop(args[1], args[2])
      [] f = "parse_using_clause" -> _parse_using_clause(args[1], args[2])
      [] f = "parse_delete" -> _parse_delete(args[1])
      [] f = "assert_done" -> _assert_done(args[1])
      [] f = "parse_with" -> _parse_with(args[1])
      [] f = "parse_statement" -> _parse_statement(args[1])

next_or_else(p) == parser_call("next_or_else", <<p>>)
maybe_consume_punctuation(p, punctuation) == parser_call("maybe_consume_punctuation", <<p, punctuation>>)
expect_punctuation(p, punctuation) == parser_call("expect_punctuation", <<p, punctuation>>)
token_is_keyword(p, token, keyword) == parser_call("token_is_keyword", <<p, token, keyword>>)
expect_keyword(p, keyword) == parser_call("expect_keyword", <<p, keyword>>)
maybe_consume_keyword(p, keyword) == parser_call("maybe_consume_keyword", <<p, keyword>>)
maybe_consume_one_of_keywords(p, keywords) == parser_call("maybe_consume_one_of_keywords", <<p, keywords>>)
kwseq_loop(p, keywords, keywords_found, consumed) == parser_call("kwseq_loop", <<p, keywords, keywords_found, consumed>>)
maybe_consume_keyword_sequence(p, keywords) == parser_call("maybe_consume_keyword_sequence", <<p, keywords>>)
maybe_clause_placeholder(p) == parser_call("maybe_clause_placeholder", <<p>>)
maybe_parse_identifier(p) == parser_call("maybe_parse_identifier", <<p>>)
parse_identifier(p) == parser_call("parse_identifier", <<p>>)
parse_expression(p) == parser_call("parse_expression", <<p>>)
parse_binop(p, precedence) == parser_call("parse_binop", <<p, precedence>>)
comma_separated_loop(p, parse_func, nodes) == parser_call("comma_separated_loop", <<p, parse_func, nodes>>)
parse_comma_separated(p, parse_func) == parser_call("parse_comma_separated", <<p, parse_func>>)
parse_in_rhs(p) == parser_call("parse_in_rhs", <<p>>)
parse_function_call(p, callee) == parser_call("parse_function_call", <<p, callee>>)
parse_identifier_expression(p, identifier) == parser_call("parse_identifier_expression", <<p, identifier>>)
parse_simple_expression(p) == parser_call("parse_simple_expression", <<p>>)
parse_select_expr(p) == parser_call("parse_select_expr", <<p>>)
parse_order_by_expr(p) == parser_call("parse_order_by_expr", <<p>>)
parse_order_by_list(p) == parser_call("parse_order_by_list", <<p>>)
parse_assignment(p) == parser_call("parse_assignment", <<p>>)
parse_table_name(p) == parser_call("parse_table_name", <<p>>)
parse_table_factor(p) == parser_call("parse_table_factor", <<p>>)
expect_one_of_kwseqs(p, seqs, i) == parser_call("expect_one_of_kwseqs", <<p, seqs, i>>)
comma_separated_allow_empty_loop(p, parse_func, nodes) ==
    parser_call("comma_separated_allow_empty_loop", <<p, parse_func, nodes>>)
parse_index(p) == parser_call("parse_index", <<p>>)
parse_index_hint(p) == parser_call("parse_index_hint", <<p>>)
parse_join_specification(p) == parser_call("parse_join_specification", <<p>>)
parse_natural_join(p, left) == parser_call("parse_natural_join", <<p, left>>)
parse_left_right_join(p, left) == parser_call("parse_left_right_join", <<p, left>>)
parse_simple_join(p, left) == parser_call("parse_simple_join", <<p, left>>)
table_reference_loop(p, ref) == parser_call("table_reference_loop", <<p, ref>>)
parse_table_reference(p) == parser_call("parse_table_reference", <<p>>)
parse_table_references(p) == parser_call("parse_table_references", <<p>>)
parse_from_clause(p, require_from) == parser_call("parse_from_clause", <<p, require_from>>)
parse_where_clause(p) == parser_call("parse_where_clause", <<p>>)
parse_having_clause(p) == parser_call("parse_having_clause", <<p>>)
parse_group_by_clause(p) == parser_call("parse_group_by_clause", <<p>>)
parse_order_by_clause(p, allowed) == parser_call("parse_order_by_clause", <<p, allowed>>)
parse_limit_clause(p, allowed) == parser_call("parse_limit_clause", <<p, allowed>>)
parse_select_limit_clause(p) == parser_call("parse_select_limit_clause", <<p>>)
parse_maybe_clause(p, clause) == parser_call("parse_maybe_clause", <<p, clause>>)
parse_into_option(p) == parser_call("parse_into_option", <<p>>)
parse_lock_mode(p) == parser_call("parse_lock_mode", <<p>>)
maybe_parse_col_name_list(p) == parser_call("maybe_parse_col_name_list", <<p>>)
parse_cte(p) == parser_call("parse_cte", <<p>>)
parse_with_clause(p) == parser_call("parse_with_clause", <<p>>)
call_parser(parse_func, p) == parser_call("call_parser", <<parse_func, p>>)
select_modifiers_loop(p, groups, i, modifiers) == parser_call("select_modifiers_loop", <<p, groups, i, modifiers>>)
parse_single_select(p) == parser_call("parse_single_select", <<p>>)
parse_subselect(p, require_parens) == parser_call("parse_subselect", <<p, require_parens>>)
union_loop(p, rest) == parser_call("union_loop", <<p, rest>>)
parse_select(p) == parser_call("parse_select", <<p>>)
parse_set_clause(p) == parser_call("parse_set_clause", <<p>>)
parse_update(p) == parser_call("parse_update", <<p>>)
using_loop(p, tables) == parser_call("using_loop", <<p, tables>>)
parse_using_clause(p, allowed) == parser_call("parse_using_clause", <<p, allowed>>)
parse_delete(p) == parser_call("parse_delete", <<p>>)
assert_done(p) == parser_call("assert_done", <<p>>)
parse_with(p) == parser_call("parse_with", <<p>>)
parse_statement(p) == parser_call("parse_statement", <<p>>)

parse(toks, d) == parse_statement(Parser(toks, d))

\* sqltree (api.py)
sqltree(s, d) ==
    Then(tokenize(s), LAMBDA t :
    IF t.err # "" THEN Fail(t.err, None)
    ELSE Then(distinguish_keywords(t.toks, d), LAMBDA distinguished :
         Then(mangle(distinguished), LAMBDA mangled :
         parse(mangled, d))))

(***************************************************************************)
(* Formatter (formatter.py)                                                *)
(*                                                                         *)
(* A Formatter object is a record F.  F.exc names the exception that is    *)
(* propagating ("" when none): every method leaves F alone while an        *)
(* exception propagates, except for the exits of the context managers and  *)
(* the finally blocks, which still run.  node_stack holds class names.     *)
(***************************************************************************)
DEFAULT_LINE_LENGTH == 88
INDENT_SIZE == 4

Formatter(d, ll, ind) ==
    [dialect |-> d, line_length |-> ll, indent |-> ind, lines |-> <<>>,
     should_skip_comments |-> FALSE, current_line_length |-> 0, can_split |-> FALSE,
     line_has_content |-> FALSE, node_stack |-> <<>>, exc |-> "", restores |-> <<>>,
     layouts |-> <<>>]

Statements == {"Select", "UnionStatement", "Update", "Delete"}
Leaves == {"Keyword", "Punctuation", "Identifier", "NumericLiteral", "StringLiteral",
           "Placeholder", "Star", "Comment"}

\* " " * n (the empty string when n <= 0)
Spaces(n) == [i \in 1..n |-> " "]
\* str.isspace: false for the empty string
str_isspace(text) == text # <<>> /\ \A i \in 1..Len(text) : isspace(text[i])
endswith_space(text) == text # <<>> /\ text[Len(text)] = " "
RECURSIVE rstrip_newline(_)
rstrip_newline(text) ==
    IF text # <<>> /\ text[Len(text)] = "\n"
    THEN rstrip_newline(SubSeq(text, 1, Len(text) - 1)) ELSE text
\* "".join(pieces)
RECURSIVE join(_)
join(pieces) == IF pieces = <<>> THEN <<>> ELSE pieces[1] \o join(Tail(pieces))

get_state(F) ==
    <<Len(F.lines), IF F.lines # <<>> THEN Len(F.lines[Len(F.lines)]) ELSE 0,
      F.current_line_length>>

restore_state(F, state) ==
    Bind(SubSeq(F.lines, 1, state[1]), LAMBDA kept :
    [F EXCEPT !.lines = IF state[1] > 0
                        THEN [kept EXCEPT ![state[1]] = SubSeq(@, 1, state[2])]
                        ELSE kept,
              !.current_line_length = state[3]])

\* History: restores gets one entry for every call of restore_state, the
\* buffer as it was when the checkpoint F0 was taken and as the call left it
buffer(F) == [lines |-> F.lines, current_line_length |-> F.current_line_length]
restore_logged(F, F0, state) ==
    Bind(restore_state(F, state), LAMBDA F1 :
    [F1 EXCEPT !.restores = Append(@, [checkpoint |-> buffer(F0), restored |-> buffer(F1),
                                       state |-> state, got |-> get_state(F1),
                                       enclosing |-> F1.layouts])])

start_new_line(F) ==
    IF F.exc # "" THEN F
    ELSE IF F.lines # <<>> /\ ~F.line_has_content THEN F
    ELSE Bind(Len(F.lines), LAMBDA n :
         Bind(IF F.lines # <<>>
                 /\ \E i \in 1..Len(F.lines[n]) : ~str_isspace(F.lines[n][i])
              THEN [F.lines EXCEPT ![n] = Append(@, <<"\n">>)]
              ELSE F.lines, LAMBDA closed :
         Bind(IF F.indent # 0 THEN <<Spaces(F.indent)>> ELSE <<>>, LAMBDA line :
         [F EXCEPT !.lines = Append(closed, line),
                   !.current_line_length = F.indent,
                   !.line_has_content = FALSE])))

\* A variant of write that never raises LineTooLong
write_unchecked(F, text) ==
    IF F.exc # "" THEN F
    ELSE Bind(IF F.lines = <<>> THEN start_new_line(F) ELSE F, LAMBDA F1 :
         [F1 EXCEPT !.lines[Len(F1.lines)] = Append(@, text),
                    !.line_has_content = TRUE,
                    !.current_line_length = @ + Len(text)])

write(F, text) ==
    IF F.exc # "" THEN F
    ELSE Bind(IF F.lines = <<>> THEN start_new_line(F) ELSE F, LAMBDA F1 :
         Bind([F1 EXCEPT !.lines[Len(F1.lines)] = Append(@, text),
                         !.line_has_content = TRUE,
                         !.current_line_length = @ + Len(text)], LAMBDA F2 :
         IF F2.can_split /\ F2.current_line_length > F2.line_length
         THEN [F2 EXCEPT !.exc = "LineTooLong"]
         ELSE F2))

add_space(F) ==
    IF F.exc # "" THEN F
    ELSE IF F.lines # <<>> /\ F.lines[Len(F.lines)] # <<>>
            /\ ~endswith_space(F.lines[Len(F.lines)][Len(F.lines[Len(F.lines)])])
    THEN write(F, <<" ">>)
    ELSE F

\* self.lines[-1] raises IndexError while there is no line
force_indentation(F) ==
    IF F.exc # "" THEN F
    ELSE IF F.line_has_content THEN start_new_line(F)
    ELSE IF F.lines = <<>> THEN [F EXCEPT !.exc = "IndexError"]
    ELSE [F EXCEPT !.lines[Len(F.lines)] = Append(@, Spaces(F.indent - F.current_line_length))]

clear_trailing_space(F) ==
    IF F.exc # "" THEN F
    ELSE IF F.lines = <<>> THEN [F EXCEPT !.exc = "IndexError"]
    ELSE Bind(Len(F.lines), LAMBDA n :
         Bind(Len(F.lines[n]), LAMBDA m :
         IF m > 0 /\ endswith_space(F.lines[n][m])
         THEN [F EXCEPT !.lines[n][m] = SubSeq(@, 1, Len(@) - 1),
                        !.current_line_length = @ - 1]
         ELSE F))

\* the loop of add_comments and of the leading comments in visit
RECURSIVE write_comments(_, _)
write_comments(F, comments) ==
    IF comments = <<>> THEN F
    ELSE write_comments(start_new_line(write(F, rstrip_newline(comments[1].text))),
                        Tail(comments))

add_comments(F, comments) ==
    write_comments(IF comments # <<>> THEN add_space(F) ELSE F, comments)

add_comments_from_leaf(F, node) ==
    IF F.exc # "" THEN F
    ELSE IF ~F.should_skip_comments THEN add_comments(F, node.token.comments)
    ELSE F

\* with self.add_indent(): the entry and the exit
indent_in(F) == IF F.exc # "" THEN F ELSE [F EXCEPT !.indent = @ + INDENT_SIZE]
indent_out(F0, F) == IF F0.exc # "" THEN F ELSE [F EXCEPT !.indent = @ - INDENT_SIZE]

parent_isinstance(F, node_cls) ==
    IF Len(F.node_stack) < 2 THEN FALSE
    ELSE F.node_stack[Len(F.node_stack) - 1] = node_cls

RECURSIVE visit(_, _)
RECURSIVE visit_all(_, _)
RECURSIVE split_all(_, _)
RECURSIVE visit_BinOp_multiline(_, _)
RECURSIVE visit_Subselect(_, _, _)

maybe_visit(F, node) == IF node = None THEN F ELSE visit(F, node)

\* for node in nodes: self.visit(node)
visit_all(F, nodes) == IF nodes = <<>> THEN F ELSE visit_all(visit(F, nodes[1]), Tail(nodes))

\* the loop of the split layout of write_comma_list
split_all(F, nodes) ==
    IF nodes = <<>> THEN F
    ELSE split_all(clear_trailing_space(visit(start_new_line(F), nodes[1])), Tail(nodes))

\* the single-line attempt of write_comma_list: the body of the with
\* statement and its exit; F0 is the formatter inside override_can_split
single_line(F, F0, nodes, with_space) ==
    Bind(visit_all(IF with_space /\ nodes # <<>> THEN add_space(F0) ELSE F0, nodes), LAMBDA F1 :
    [F1 EXCEPT !.can_split = F.can_split, !.layouts = F.layouts])

\* the split layout of write_comma_list, from restore_state on
one_per_line(F, F0, F2, state, nodes) ==
    Bind(restore_logged([F2 EXCEPT !.exc = ""], F0, state), LAMBDA F3 :
    Bind(split_all(indent_in([F3 EXCEPT !.layouts = Append(@, "split")]), nodes), LAMBDA F4 :
    [start_new_line(indent_out(F3, F4)) EXCEPT !.layouts = F.layouts]))

\* A variant of write_comma_list without the except clause: LineTooLong
\* leaves the list that raised it
write_comma_list_uncaught(F, nodes, with_space) ==
    IF F.exc # "" THEN F
    ELSE single_line(F, [F EXCEPT !.can_split = TRUE, !.layouts = Append(@, "single")],
                     nodes, with_space)

\* A variant of write_comma_list that splits the list that raised LineTooLong
\* whether or not an enclosing list can split
write_comma_list_inner_first(F, nodes, with_space) ==
    Bind([F EXCEPT !.can_split = TRUE, !.layouts = Append(@, "single")], LAMBDA F0 :
    Bind(single_line(F, F0, nodes, with_space), LAMBDA F2 :
    IF F.exc # "" THEN F
    ELSE IF F2.exc # "LineTooLong" THEN F2
    ELSE one_per_line(F, F0, F2, get_state(F0), nodes)))

\* History: layouts holds, for every write_comma_list in progress, "single"
\* while it is in its with statement and "split" while it writes one
\* element per line
write_comma_list(F, nodes, with_space) ==
    Bind([F EXCEPT !.can_split = TRUE, !.layouts = Append(@, "single")], LAMBDA F0 :
    Bind(single_line(F, F0, nodes, with_space), LAMBDA F2 :
    IF F.exc # "" THEN F
    ELSE IF F2.exc # "LineTooLong" THEN F2
    ELSE IF F2.can_split THEN F2
    ELSE one_per_line(F, F0, F2, get_state(F0), nodes)))

visit_Keyword(F, node) == write(F, upper(node.text))
visit_Punctuation(F, node) == write(F, node.text)
visit_Placeholder(F, node) == write(F, node.text)
visit_NumericLiteral(F, node) == write(F, lower(node.value))
visit_Star(F, node) == write(F, <<"*">>)

visit_Identifier(F, node) ==
    IF upper(node.text) \in get_keywords(F.dialect)
       \/ \E i \in 1..Len(node.text) : ~isalnum(node.text[i]) /\ node.text[i] # "_"
    THEN Bind(get_identifier_delimiter(F.dialect), LAMBDA delimiter :
         write(F, <<delimiter>> \o node.text \o <<delimiter>>))
    ELSE write(F, node.text)

\* value.replace("'", "''")
RECURSIVE double_quotes(_)
double_quotes(value) ==
    IF value = <<>> THEN <<>>
    ELSE (IF value[1] = "'" THEN <<"'", "'">> ELSE <<value[1]>>) \o double_quotes(Tail(value))
visit_StringLiteral(F, node) == write(F, <<"'">> \o double_quotes(node.value) \o <<"'">>)

write_punctuation(F, node) ==
    IF node = None THEN F
    ELSE visit_Punctuation(IF node.text \notin {<<"(">>, <<")">>, <<",">>, <<"*">>}
                           THEN add_space(F) ELSE F, node)

visit_trailing_comma(F, node) == IF node = None THEN F ELSE add_space(visit(F, node))

\* the first loop of visit_KeywordSequence
RECURSIVE visit_keywords(_, _, _)
visit_keywords(F, keywords, i) ==
    IF i > Len(keywords) THEN F
    ELSE visit_keywords(visit(IF i > 1 THEN add_space(F) ELSE F, keywords[i]), keywords, i + 1)
\* the second loop of visit_KeywordSequence
RECURSIVE add_keyword_comments(_, _)
add_keyword_comments(F, keywords) ==
    IF keywords = <<>> THEN F
    ELSE add_keyword_comments(add_comments(F, keywords[1].token.comments), Tail(keywords))

visit_KeywordSequence(F, node) ==
    Bind(visit_keywords([F EXCEPT !.should_skip_comments = TRUE], node.keywords, 1), LAMBDA F1 :
    Bind([F1 EXCEPT !.should_skip_comments = F.should_skip_comments], LAMBDA F2 :
    IF F.exc # "" THEN F
    ELSE IF F2.exc # "" THEN F2
    ELSE add_keyword_comments(F2, node.keywords)))

visit_FromClause(F, node) ==
    Bind(IF ~parent_isinstance(F, "Delete") THEN start_new_line(F) ELSE F, LAMBDA F1 :
    Bind(IF node.kw = None THEN write(F1, W.from) ELSE visit(F1, node.kw), LAMBDA F2 :
    write_comma_list(F2, node.table, TRUE)))

visit_GroupByClause(F, node) ==
    write_comma_list(visit(start_new_line(F), node.kwseq), node.expr, TRUE)
visit_OrderByClause(F, node) ==
    write_comma_list(visit(start_new_line(F), node.kwseq), node.expr, TRUE)
visit_SetClause(F, node) ==
    write_comma_list(visit(start_new_line(F), node.kw), node.assignments, TRUE)
visit_UsingClause(F, node) ==
    write_comma_list(visit(start_new_line(F), node.kw), node.tables, TRUE)

visit_ColNameList(F, node) ==
    visit(write_comma_list(visit(F, node.open_paren), node.col_names, FALSE),
          node.close_paren)

visit_Subselect(F, node, always_parenthesize) ==
    IF node.left_paren = None
    THEN IF always_parenthesize
         THEN Bind(write(F, <<"(">>), LAMBDA F1 :
              Bind(indent_in(F1), LAMBDA F2 :
              write(indent_out(F1, visit(F2, node.select)), <<")">>)))
         ELSE visit(F, node.select)
    ELSE Bind(visit(F, node.left_paren), LAMBDA F1 :
         Bind(indent_in(F1), LAMBDA F2 :
         visit(indent_out(F1, visit(F2, node.select)), node.right_paren)))

visit_Assignment(F, node) ==
    visit(add_space(visit(add_space(visit(F, node.col_name)), node.eq_punc)), node.value)

visit_All(F, node) == visit(F, node.kw)

visit_SelectLimitClause(F, node) ==
    Bind(visit(add_space(visit(start_new_line(F), node.kw)), node.row_count), LAMBDA F1 :
    Bind(write(add_space(F1), W.offset), LAMBDA F2 :
    Bind(IF node.offset_leaf # None THEN add_comments_from_leaf(F2, node.offset_leaf)
         ELSE F2, LAMBDA F3 :
    IF node.offset # None THEN visit(add_space(F3), node.offset) ELSE F1)))

visit_CommonTableExpression(F, node) ==
    Bind(add_space(visit(F, node.table_name)), LAMBDA F1 :
    Bind(IF node.col_names # None THEN add_space(visit(F1, node.col_names)) ELSE F1, LAMBDA F2 :
    visit(add_space(visit(F2, node.as_kw)), node.subquery)))

visit_WithClause(F, node) ==
    Bind(visit(start_new_line(F), node.kw), LAMBDA F1 :
    Bind(IF node.recursive_kw # None THEN visit(add_space(F1), node.recursive_kw)
         ELSE F1, LAMBDA F2 :
    write_comma_list(F2, node.ctes, TRUE)))

\* for kw in node.modifiers: add_space; visit
RECURSIVE visit_modifiers(_, _)
visit_modifiers(F, modifiers) ==
    IF modifiers = <<>> THEN F
    ELSE visit_modifiers(visit(add_space(F), modifiers[1]), Tail(modifiers))

visit_Select(F, node) ==
    LET F1 == visit(start_new_line(maybe_visit(F, node.with_clause)), node.select_kw)
        F2 == write_comma_list(visit_modifiers(F1, node.modifiers), node.select_exprs, TRUE)
        F3 == maybe_visit(maybe_visit(F2, node.into_before_from), node.from_clause)
        F4 == maybe_visit(maybe_visit(maybe_visit(F3, node.where), node.group_by),
                          node.having)
        F5 == maybe_visit(maybe_visit(F4, node.order_by), node.limit)
    IN  maybe_visit(maybe_visit(maybe_visit(F5, node.into_before_lock_mode),
                                node.lock_mode), node.into)

\* for entry in node.others
RECURSIVE visit_union_entries(_, _, _)
visit_union_entries(F, others, always_parens) ==
    IF others = <<>> THEN F
    ELSE Bind(others[1], LAMBDA entry :
         Bind(visit(start_new_line(F), entry.union_kw), LAMBDA F1 :
         Bind(IF entry.all_kw # None THEN visit(add_space(F1), entry.all_kw) ELSE F1, LAMBDA F2 :
         visit_union_entries(visit_Subselect(start_new_line(F2), entry.select,
                                             always_parens),
                             Tail(others), always_parens))))

visit_UnionStatement(F, node) ==
    LET always_parens == node.order_by # None \/ node.limit # None
        F1 == visit_Subselect(F, node.first, always_parens)
        F2 == visit_union_entries(F1, node.others, always_parens)
    IN  maybe_visit(maybe_visit(F2, node.order_by), node.limit)

visit_Delete(F, node) ==
    LET F1 == visit(start_new_line(maybe_visit(F, node.with_clause)), node.delete_kw)
        F2 == visit(add_space(F1), node.from_clause)
        F3 == maybe_visit(maybe_visit(F2, node.using_clause), node.where)
    IN  maybe_visit(maybe_visit(F3, node.order_by), node.limit)

visit_Update(F, node) ==
    LET F1 == visit(start_new_line(maybe_visit(F, node.with_clause)), node.update_kw)
        F2 == visit(visit(add_space(F1), node.table), node.set_clause)
    IN  maybe_visit(maybe_visit(maybe_visit(F2, node.where), node.order_by), node.limit)

visit_KeywordIdentifier(F, node) == visit(F, node.keyword)
visit_PlaceholderClause(F, node) == visit(start_new_line(F), node.placeholder)
visit_NullExpression(F, node) == visit(F, node.null_kw)
visit_WithTrailingComma(F, node) ==
    visit_trailing_comma(visit(F, node.node), node.trailing_comma)

visit_FunctionCall(F, node) ==
    visit(write_comma_list(visit(visit(F, node.callee), node.left_paren), node.args, FALSE),
          node.right_paren)

visit_Parenthesized(F, node) ==
    visit(visit(visit(F, node.left_punc), node.inner), node.right_punc)

visit_ExprList(F, node) ==
    visit(write_comma_list(visit(F, node.left_paren), node.exprs, FALSE), node.right_paren)

visit_Distinct(F, node) == visit(add_space(visit(F, node.distinct_kw)), node.expr)

\* self._maybe_multiline(node, precedence)
maybe_multiline(F, node, precedence) ==
    IF node.k = "BinOp" /\ get_precedence(node) = precedence
    THEN visit_BinOp_multiline(F, node)
    ELSE visit(F, node)

\* A variant of visit_BinOp_multiline that leaves the operator on the line of
\* the left operand
visit_BinOp_inline(F, node) ==
    Bind(get_precedence(node), LAMBDA precedence :
    Bind(maybe_multiline(force_indentation(F), node.left, precedence), LAMBDA F1 :
    Bind(add_space(visit(add_space(F1), node.op)), LAMBDA F2 :
    maybe_multiline(F2, node.right, precedence))))

visit_BinOp_multiline(F, node) ==
    Bind(get_precedence(node), LAMBDA precedence :
    Bind(maybe_multiline(force_indentation(F), node.left, precedence), LAMBDA F1 :
    Bind(add_space(visit(start_new_line(F1), node.op)), LAMBDA F2 :
    maybe_multiline(F2, node.right, precedence))))

visit_BinOp(F, node) ==
    IF get_precedence(node) >= MIN_BOOLEAN_PRECEDENCE
    THEN Bind(clear_trailing_space(F), LAMBDA F1 :
         Bind(indent_out(F1, visit_BinOp_multiline(indent_in(F1), node)), LAMBDA F2 :
         IF parent_isinstance(F, "Parenthesized") THEN start_new_line(F2) ELSE F2))
    ELSE visit(add_space(visit(add_space(visit(F, node.left)), node.op)), node.right)

visit_UnaryOp(F, node) ==
    Bind(visit(F, node.op), LAMBDA F1 :
    IF node.expr.k \notin Leaves \cup {"Parenthesized", "Subselect", "NullExpression",
                                       "FunctionCall"}
    THEN write(visit(write(F1, <<"(">>), node.expr), <<")">>)
    ELSE visit(F1, node.expr))

visit_IndexHint(F, node) ==
    Bind(visit(add_space(visit(start_new_line(F), node.intro_kw)), node.kind_kw), LAMBDA F1 :
    Bind(IF node.for_what = None THEN F1
         ELSE Bind(add_space(F1), LAMBDA F2 :
              Bind(IF node.for_kw # None THEN visit(F2, node.for_kw)
                   ELSE write(F2, W.for), LAMBDA F3 :
              visit(add_space(F3), node.for_what))), LAMBDA F4 :
    visit(write_comma_list(visit(F4, node.left_paren), node.index_list, FALSE),
          node.right_paren)))

\* for index_hint in node.index_hint_list
RECURSIVE visit_index_hints(_, _)
visit_index_hints(F, index_hint_list) ==
    IF index_hint_list = <<>> THEN F
    ELSE Bind(visit(start_new_line(F), index_hint_list[1].node), LAMBDA F1 :
         visit_index_hints(IF index_hint_list[1].trailing_comma # None
                           THEN visit(F1, index_hint_list[1].trailing_comma) ELSE F1,
                           Tail(index_hint_list)))

\* maybe_visit(node.as_kw, else_write="AS", add_space=True)
visit_SimpleTableFactor(F, node) ==
    Bind(visit(F, node.table_name), LAMBDA F1 :
    Bind(add_space(F1), LAMBDA F2 :
    Bind(IF node.as_kw = None THEN add_space(write(F2, W.as))
         ELSE add_space(visit(F2, node.as_kw)), LAMBDA F3 :
    visit_index_hints(IF node.alias # None THEN visit(F3, node.alias) ELSE F1,
                      node.index_hint_list))))

visit_SimpleTableName(F, node) == visit(F, node.identifier)

visit_JoinOn(F, node) ==
    visit(add_space(visit(start_new_line(F), node.kw)), node.search_condition)

JoinedTables == {"SimpleJoinedTable", "LeftRightJoinedTable", "NaturalJoinedTable"}
\* kws = [kw for kw in kws if kw is not None]
join_kws(node) ==
    SelectSeq(CASE node.k = "SimpleJoinedTable" -> <<node.inner_cross, node.join_kw>>
                [] node.k = "LeftRightJoinedTable" ->
                       <<node.left_right, node.outer_kw, node.join_kw>>
                [] node.k = "NaturalJoinedTable" ->
                       <<node.natural_kw, node.left_right, node.inner_outer, node.join_kw>>,
              LAMBDA kw : kw # None)

visit_join(F, node) ==
    Bind(IF node.left.k \in JoinedTables THEN visit(F, node.left)
         ELSE Bind(clear_trailing_space(F), LAMBDA F1 :
              indent_out(F1, visit(start_new_line(indent_in(F1)), node.left))), LAMBDA F2 :
    Bind(visit_KeywordSequence(start_new_line(F2), KeywordSequence(join_kws(node))), LAMBDA F3 :
    Bind(indent_out(F3, visit(start_new_line(indent_in(F3)), node.right)), LAMBDA F4 :
    IF node.k = "NaturalJoinedTable" THEN F4 ELSE maybe_visit(F4, node.join_specification))))

\* The methods generic_visit generates from the fields of the dataclass
visit_Not(F, node) == visit(add_space(visit(add_space(F), node.not_kw)), node.expr)

visit_SelectExpr(F, node) ==
    Bind(visit(add_space(F), node.expr), LAMBDA F1 :
    Bind(IF node.as_kw # None THEN visit(add_space(F1), node.as_kw) ELSE F1, LAMBDA F2 :
    IF node.alias # None THEN visit(add_space(F2), node.alias) ELSE F2))

visit_OrderByExpr(F, node) ==
    Bind(visit(add_space(F), node.expr), LAMBDA F1 :
    IF node.direction_kw # None THEN visit(add_space(F1), node.direction_kw) ELSE F1)

visit_WhereClause(F, node) ==
    visit(add_space(visit(start_new_line(F), node.kw)), node.conditions)
visit_HavingClause(F, node) ==
    visit(add_space(visit(start_new_line(F), node.kw)), node.conditions)
visit_LimitClause(F, node) ==
    visit(add_space(visit(start_new_line(F), node.kw)), node.row_count)
visit_JoinUsing(F, node) ==
    Bind(write_punctuation(visit(add_space(F), node.kw), node.left_paren), LAMBDA F1 :
    write_punctuation(write_comma_list(F1, node.join_column_list, TRUE), node.right_paren))

\* Visitor.visit: getattr(self, "visit_" + type(node).__name__, self.generic_visit)
visit_method(F, node) ==
    CASE node.k = "Keyword" -> visit_Keyword(F, node)
      [] node.k = "Punctuation" -> visit_Punctuation(F, node)
      [] node.k = "Identifier" -> visit_Identifier(F, node)
      [] node.k = "KeywordIdentifier" -> visit_KeywordIdentifier(F, node)
      [] node.k = "KeywordSequence" -> visit_KeywordSequence(F, node)
      [] node.k = "WithTrailingComma" -> visit_WithTrailingComma(F, node)
      [] node.k = "StringLiteral" -> visit_StringLiteral(F, node)
      [] node.k = "NumericLiteral" -> visit_NumericLiteral(F, node)
      [] node.k = "Placeholder" -> visit_Placeholder(F, node)
      [] node.k = "PlaceholderClause" -> visit_PlaceholderClause(F, node)
      [] node.k = "NullExpression" -> visit_NullExpression(F, node)
      [] node.k = "Star" -> visit_Star(F, node)
      [] node.k = "FunctionCall" -> visit_FunctionCall(F, node)
      [] node.k = "ExprList" -> visit_ExprList(F, node)
      [] node.k = "BinOp" -> visit_BinOp(F, node)
      [] node.k = "UnaryOp" -> visit_UnaryOp(F, node)
      [] node.k = "Parenthesized" -> visit_Parenthesized(F, node)
      [] node.k = "Distinct" -> visit_Distinct(F, node)
      [] node.k = "Not" -> visit_Not(F, node)
      [] node.k = "SelectExpr" -> visit_SelectExpr(F, node)
      [] node.k = "OrderByExpr" -> visit_OrderByExpr(F, node)
      [] node.k = "SimpleTableName" -> visit_SimpleTableName(F, node)
      [] node.k = "SimpleTableFactor" -> visit_SimpleTableFactor(F, node)
      [] node.k \in JoinedTables -> visit_join(F, node)
      [] node.k = "JoinOn" -> visit_JoinOn(F, node)
      [] node.k = "IndexHint" -> visit_IndexHint(F, node)
      [] node.k = "JoinUsing" -> visit_JoinUsing(F, node)
      [] node.k = "FromClause" -> visit_FromClause(F, node)
      [] node.k = "WhereClause" -> visit_WhereClause(F, node)
      [] node.k = "GroupByClause" -> visit_GroupByClause(F, node)
      [] node.k = "HavingClause" -> visit_HavingClause(F, node)
      [] node.k = "OrderByClause" -> visit_OrderByClause(F, node)
      [] node.k = "LimitClause" -> visit_LimitClause(F, node)
      [] node.k = "SelectLimitClause" -> visit_SelectLimitClause(F, node)
      [] node.k = "All" -> visit_All(F, node)
      [] node.k = "CommonTableExpression" -> visit_CommonTableExpression(F, node)
      [] node.k = "WithClause" -> visit_WithClause(F, node)
      [] node.k = "ColNameList" -> visit_ColNameList(F, node)
      [] node.k = "Subselect" -> visit_Subselect(F, node, FALSE)
      [] node.k = "UsingClause" -> visit_UsingClause(F, node)
      [] node.k = "SetClause" -> visit_SetClause(F, node)
      [] node.k = "Assignment" -> visit_Assignment(F, node)
      [] node.k = "Select" -> visit_Select(F, node)
      [] node.k = "UnionStatement" -> visit_UnionStatement(F, node)
      [] node.k = "Update" -> visit_Update(F, node)
      [] node.k = "Delete" -> visit_Delete(F, node)

\* Formatter.visit: the push, the leading comments of a statement, the visit
\* method, the comments of a leaf, and the pop of the finally block
visit_enter(F, node) ==
    IF node.k \in Statements
    THEN write_comments([F EXCEPT !.node_stack = Append(@, node.k)], node.leading_comments)
    ELSE [F EXCEPT !.node_stack = Append(@, node.k)]
visit_leave(F, node) ==
    [(IF node.k \in Leaves THEN add_comments_from_leaf(F, node) ELSE F)
        EXCEPT !.node_stack = SubSeq(@, 1, Len(@) - 1)]
visit(F, node) ==
    IF F.exc # "" THEN F
    ELSE visit_leave(visit_method(visit_enter(F, node), node), node)

\* Formatter.format; the outcome is the exception or the returned string
Formatter_format(F, root) ==
    Bind(visit(F, root), LAMBDA F1 :
    Bind(join([i \in 1..Len(F1.lines) |-> join(F1.lines[i])]), LAMBDA text :
    [err |-> F1.exc,
     out |-> IF F1.exc # "" THEN <<>>
             ELSE IF F.indent > 0
             THEN <<"\n">> \o text \o <<"\n">> \o Spaces(F.indent - INDENT_SIZE)
             ELSE text \o <<"\n">>,
     lines |-> F1.lines, restores |-> F1.restores]))

format_tree(root, d, ll, ind) == Formatter_format(Formatter(d, ll, ind), root)

\* format (formatter.py): sqltree, then format_tree
format(s, d, ll, ind) ==
    Bind(sqltree(s, d), LAMBDA t :
    IF t.err # "" THEN [err |-> t.err, out |-> <<>>, lines |-> <<>>, restores |-> <<>>]
    ELSE format_tree(t.node, d, ll, ind))


(***************************************************************************)
(* The tokenizer as a state machine: one action per loop iteration         *)
(***************************************************************************)
MaxSqlLen == 4
TokChars == {"a", " ", "'", Backtick, "%", "(", ")", "-", "1", "!", "\n"}

RECURSIVE StringsUpTo(_, _)
StringsUpTo(chars, n) ==
    IF n = 0 THEN {<<>>}
    ELSE LET shorter == StringsUpTo(chars, n - 1) IN
         shorter \cup {Append(t, c) : t \in {u \in shorter : Len(u) = n - 1}, c \in chars}

NoResult == [err |-> "none"]

\* no call on the Dialect object alone is made: the cache is unset (None is
\* the empty set here, no keyword set is empty) and no thread runs
NoKeywords == {}
NoDialectCalls ==
    /\ _keywords = NoKeywords
    /\ threads = <<>>
    /\ version_range = <<>>
    /\ returned = <<>>
MysqlDialect == Dialect("mysql", NoVersion)

InitTok ==
    /\ sql \in StringsUpTo(TokChars, MaxSqlLen)
    /\ dialect = MysqlDialect
    /\ line_length = 88
    /\ indent = 0
    /\ pc = "tokenize"
    /\ next_pos = 0
    /\ tokens = <<>>
    /\ tree = NoResult
    /\ out = NoResult
    /\ out2 = NoResult
    /\ NoDialectCalls

TokYield ==
    /\ pc = "tokenize"
    /\ has_next(sql, next_pos)
    /\ LET st == tokenize_step(sql, next_pos) IN
       /\ st.kind = "token"
       /\ tokens' = Append(tokens, Token(st.typ, st.text, next_pos, st.pos - 1))
       /\ next_pos' = st.pos
    /\ UNCHANGED <<dialect_calls, sql, dialect, line_length, indent, pc, tree, out, out2>>

TokSkip ==
    /\ pc = "tokenize"
    /\ has_next(sql, next_pos)
    /\ LET st == tokenize_step(sql, next_pos) IN
       /\ st.kind = "skip"
       /\ next_pos' = st.pos
    /\ UNCHANGED <<dialect_calls, sql, dialect, line_length, indent, pc, tokens, tree, out, out2>>

TokRaise ==
    /\ pc = "tokenize"
    /\ has_next(sql, next_pos)
    /\ LET st == tokenize_step(sql, next_pos) IN
       /\ st.kind \notin {"token", "skip"}
       /\ pc' = st.kind
       /\ next_pos' = st.pos
    /\ UNCHANGED <<dialect_calls, sql, dialect, line_length, indent, tokens, tree, out, out2>>

TokEnd ==
    /\ pc = "tokenize"
    /\ ~has_next(sql, next_pos)
    /\ tokens' = tokens \o tokenize_end(sql, next_pos)
    /\ pc' = "tokenized"
    /\ UNCHANGED <<dialect_calls, sql, dialect, line_length, indent, next_pos, tree, out, out2>>

NextTok == TokYield \/ TokSkip \/ TokRaise \/ TokEnd
SpecTok == InitTok /\ [][NextTok]_vars

(***************************************************************************)
(* Inputs of the pipeline: statements written as lists of words            *)
(***************************************************************************)
MaxExprs == 2
MaxLegs == 2

\* the words as a caller writes them, in lower case
w == [word \in DOMAIN W |-> lower(W[word])]

\* " ".join(words)
RECURSIVE Text(_)
Text(words) ==
    IF words = <<>> THEN <<>>
    ELSE IF Len(words) = 1 THEN words[1]
    ELSE words[1] \o <<" ">> \o Text(Tail(words))

\* the comma-separated lists of one to n elements
RECURSIVE ListsOf(_, _)
ListsOf(elems, n) ==
    IF n <= 1 THEN elems
    ELSE LET shorter == ListsOf(elems, n - 1)
         IN  shorter \cup {l \o << <<",">> >> \o e : l \in shorter, e \in elems}

Exprs ==
    { << <<"a">> >>,
      << <<"a">>, w.and, <<"b">> >>,
      << <<"(">>, <<"a">>, w.or, <<"b">>, <<")">>, w.and, <<"c">> >>,
      << <<"f">>, <<"(">>, <<"a">>, <<"&", "&">>, <<"b">>, <<",">>, <<"c">>, <<")">> >>,
      << w.not, <<"a">>, w.xor, <<"b">>, <<"=">>, <<"1">> >> }

SelectTails ==
    { <<>>,
      << w.from, <<"t">> >>,
      << w.from, <<"t">>, w.where, <<"a">>, <<"=">>, <<"b">>, <<"+">>, <<"1">> >>,
      << w.from, <<"t">>, w.where, <<"a">>, w.and, <<"(">>, <<"b">>, <<"|", "|">>,
         <<"c">>, <<")">> >>,
      << w.from, <<"t">>, w.group, w.by, <<"a">>, w.having, <<"a">>, w.or, <<"b">> >> }

LayoutSelects ==
    {<<w.select>> \o l \o t : l \in ListsOf(Exprs, MaxExprs), t \in SelectTails}

Select1 == << w.select, <<"1">> >>
InParens(words) == << <<"(">> >> \o words \o << <<")">> >>
Legs == {Select1, InParens(Select1)}
UnionKws == { <<w.union>>, <<w.union, w.all>> }

RECURSIVE Unions(_)
Unions(n) ==
    IF n <= 1 THEN Legs
    ELSE {u \o k \o l : u \in Unions(n - 1), k \in UnionKws, l \in Legs}

OrderTails == { <<>>, << w.order, w.by, <<"a">> >> }
LimitTails ==
    { <<>>,
      << w.limit, <<"1">> >>,
      << w.limit, w.all >>,
      << w.limit, <<"1">>, <<",">>, <<"2">> >>,
      << w.limit, <<"1">>, w.offset, <<"2">> >> }

SelectStatements ==
    {u \o o \o l : u \in UNION {Unions(n) : n \in 1..MaxLegs}, o \in OrderTails,
                   l \in LimitTails}

Update1 == << w.update, <<"t">>, w.set, <<"a">>, <<"=">>, <<"1">> >>
Delete1 == << w.delete, w.from, <<"t">> >>
UpdateTails == {o \o l : o \in OrderTails, l \in { <<>>, << w.limit, <<"1">> >> }}
Wheres == { <<>>, << w.where, <<"b">>, w.and, <<"c">> >> }

Updates == {Update1 \o wh \o t : wh \in Wheres, t \in UpdateTails}
Deletes ==
    {Delete1 \o us \o wh \o t : us \in { <<>>, << w.using, <<"u">> >> }, wh \in Wheres,
                                t \in UpdateTails}

WithPrefixes ==
    { << w.with, <<"x">>, w.as >> \o InParens(Select1),
      << w.with, w.recursive, <<"x">>, w.as >> \o InParens(Select1),
      << w.with, <<"x">>, <<"(">>, <<"a">>, <<")">>, w.as >> \o InParens(Select1) }
Withs ==
    {pre \o s : pre \in WithPrefixes,
                s \in {Select1, Update1, Delete1, InParens(Select1),
                       Select1 \o <<w.union>> \o Select1}}

Statement1 == SelectStatements \cup Updates \cup Deletes \cup Withs

LineComment == <<"-", "-", " ", "c", "\n">>
BlockComment == <<"/", "*", "c", "*", "/">>
LongComment == <<"-", "-", " ", "c", "c", "c", "\n">>
\* comments inside a statement, after a comma and after an operand
Commented ==
    { << w.select, <<"a">>, <<",">>, LongComment, <<"b">> >>,
      << w.select, <<"a">>, LineComment, w.and, <<"b">>, <<",">>, <<"c">> >>,
      InParens(<< w.select, LineComment, <<"a">>, w.and, <<"b">>, <<",">>, <<"c">> >>),
      << w.select, <<"a">>, w.from, <<"t">>, w.where, <<"a">>, LongComment, w.or,
         <<"b">> >> }
\* a statement, after a comment or not, before a stray ")" or not
Wrapped ==
    {pre \o s \o suf : s \in Statement1, pre \in { <<>>, <<LineComment>> },
                       suf \in { <<>>, << <<")">> >> }}

\* the spelling of an operator of _BINOP_PRECEDENCE in the input
OpTexts == {lower(op[2]) : op \in UNION {BINOP_PRECEDENCE[i] : i \in DOMAIN BINOP_PRECEDENCE}}
BinopStatements ==
    {<< w.select, <<"a">>, op1, <<"b">>, op2, <<"c">> >> : op1 \in OpTexts, op2 \in OpTexts}

Quoted ==
    { <<Backtick, "a", Backtick, Backtick, "b", Backtick>>,
      <<Backtick, "a", " ", "b", Backtick>>,
      <<Backtick, "a", Backtick>>,
      <<"'", "i", "t", "'", "'", "s", "'">>,
      <<"'", "a", "'">>,
      <<"\"", "x", "\"">>,
      <<"%", "s">>,
      <<"1", "e", "5">> }
QuotedStatements == {InParens(<<w.select, q>>) : q \in Quoted}

\* the statements cut short after any word
Truncated ==
    UNION {{SubSeq(s, 1, n) : n \in 1..Len(s)} :
           s \in {Select1 \o << w.from, <<"t">>, w.where, <<"a">> >>,
                  Update1 \o << w.where, <<"b">> >>,
                  Delete1 \o << w.where, <<"b">> >>,
                  InParens(Select1 \o << w.from, <<"t">> >>),
                  << w.with, <<"x">>, w.as >> \o InParens(Select1) \o Select1}}

Dialects ==
    {Dialect("mysql", NoVersion), Dialect("presto", NoVersion),
     Dialect("redshift", NoVersion)}

SqlInputs ==
    {Text(s) : s \in Wrapped \cup QuotedStatements \cup Truncated
                     \cup {InParens(s1) : s1 \in LayoutSelects}}

\* statements with a placeholder where an optional clause may start
PlaceholderS == <<"%", "s">>
Placeheld ==
    {st \o ph : st \in {Select1, Select1 \o << w.from, <<"t">> >>,
                        Select1 \o << w.from, <<"t">>, w.where, <<"b">> >>,
                        Update1, Update1 \o << w.where, <<"b">> >>,
                        Delete1, Delete1 \o << w.where, <<"b">> >>},
                ph \in { <<PlaceholderS>>, <<PlaceholderS, PlaceholderS>> }}

\* a statement after one to three comments
LeadingComments ==
    { <<LineComment>>, <<BlockComment>>, <<LineComment, BlockComment>>,
      <<BlockComment, BlockComment, LineComment>> }
LedByComments ==
    {pre \o st : pre \in LeadingComments,
                 st \in {Select1, Delete1, Update1, InParens(Select1)}}

\* comma-separated lists inside the select list and inside the table list
NestedLists ==
    { << w.select, <<"a">>, <<",">>, <<"f">>, <<"(">>, <<"a">>, <<",">>, <<"b">>, <<")">> >>,
      << w.select, <<"f">>, <<"(">>, <<"a">>, <<",">>, <<"b">>, <<")">>, <<",">>, <<"c">>,
         w.from, <<"t">> >>,
      << w.select, <<"a">>, w.in, <<"(">>, <<"b">>, <<",">>, <<"c">>, <<")">>, <<",">>,
         <<"d">>, w.from, <<"t">> >>,
      << w.select, <<"x">>, w.from, <<"t">>, w.use, w.index, <<"(">>, <<"i">>, <<",">>,
         w.primary, <<")">> >> }

ParseInputs ==
    {Text(s) : s \in Wrapped \cup LayoutSelects \cup Commented \cup BinopStatements
                     \cup Placeheld \cup LedByComments \cup NestedLists}

\* a line short enough to make the layouts split, and the default
LineLengths == {12, DEFAULT_LINE_LENGTH}

\* what a run keeps of the outcome of parse
Outcome(r) == [err |-> r.err, at |-> r.at, node |-> r.node]
\* the eof token the parser peeks at after the last statement token
Eof(s) == Token("eof", <<>>, Len(s), Len(s))

(***************************************************************************)
(* sqltree.formatter.format, twice: tokenize, distinguish_keywords,        *)
(* mangle, parse, format_tree, and format again on the output              *)
(***************************************************************************)
Init ==
    /\ sql \in SqlInputs
    /\ dialect \in Dialects
    /\ line_length = DEFAULT_LINE_LENGTH
    /\ indent = 0
    /\ pc = "start"
    /\ next_pos = 0
    /\ tokens = <<>>
    /\ tree = NoResult
    /\ out = NoResult
    /\ out2 = NoResult
    /\ NoDialectCalls

Tokenize ==
    /\ pc = "start"
    /\ \E t \in {tokenize(sql)} :
       /\ tokens' = t.toks
       /\ tree' = IF t.err = "" THEN tree ELSE Outcome(Fail(t.err, None))
       /\ pc' = IF t.err = "" THEN "tokenized" ELSE "raised"
    /\ UNCHANGED <<dialect_calls, sql, dialect, line_length, indent, next_pos, out, out2>>

DistinguishKeywords ==
    /\ pc = "tokenized"
    /\ tokens' = distinguish_keywords(tokens, dialect)
    /\ pc' = "distinguished"
    /\ UNCHANGED <<dialect_calls, sql, dialect, line_length, indent, next_pos, tree, out, out2>>

Mangle ==
    /\ pc = "distinguished"
    /\ tokens' = mangle(tokens)
    /\ pc' = "mangled"
    /\ UNCHANGED <<dialect_calls, sql, dialect, line_length, indent, next_pos, tree, out, out2>>

\* next_pos becomes the position of the parser in tokens when it returns
Parse ==
    /\ pc = "mangled"
    /\ \E r \in {parse(tokens, dialect)} :
       /\ tree' = Outcome(r)
       /\ next_pos' = IF r.err = "" THEN r.p.next_pos ELSE next_pos
       /\ pc' = IF r.err = "" THEN "parsed" ELSE "raised"
    /\ UNCHANGED <<dialect_calls, sql, dialect, line_length, indent, tokens, out, out2>>

FormatTree ==
    /\ pc = "parsed"
    /\ out' = format_tree(tree.node, dialect, line_length, indent)
    /\ pc' = IF out'.err = "" THEN "formatted" ELSE "raised"
    /\ UNCHANGED <<dialect_calls, sql, dialect, line_length, indent, next_pos, tokens, tree, out2>>

Reformat ==
    /\ pc = "formatted"
    /\ out2' = format(out.out, dialect, line_length, indent)
    /\ pc' = "reformatted"
    /\ UNCHANGED <<dialect_calls, sql, dialect, line_length, indent, next_pos, tokens, tree, out>>

Next == Tokenize \/ DistinguishKeywords \/ Mangle \/ Parse \/ FormatTree \/ Reformat
Spec == Init /\ [][Next]_vars

(***************************************************************************)
(* The pipeline from a token stream that ends with the eof token           *)
(***************************************************************************)
InitParse ==
    /\ sql \in ParseInputs
    /\ dialect \in Dialects
    /\ line_length \in LineLengths
    /\ indent = 0
    /\ pc = "tokenized"
    /\ next_pos = 0
    /\ tokens = Append(tokenize(sql).toks, Eof(sql))
    /\ tree = NoResult
    /\ out = NoResult
    /\ out2 = NoResult
    /\ NoDialectCalls

NextParse == DistinguishKeywords \/ Mangle \/ Parse \/ FormatTree
SpecParse == InitParse /\ [][NextParse]_vars

\* No run takes a branch of the parser that the model leaves out
ModelCovers == tree.err # "Unmodelled"

(***************************************************************************)
(* Properties of the tokenizer (SpecTok)                                   *)
(***************************************************************************)
\* sql[start_index .. end_index] of a token
Source(token) == SubSeq(sql, token.start_index + 1, token.end_index + 1)

\* text with every pair of adjacent characters q read as one q
RECURSIVE undouble(_, _)
undouble(text, q) ==
    IF text = <<>> THEN <<>>
    ELSE IF Len(text) >= 2 /\ text[1] = q /\ text[2] = q
    THEN <<q>> \o undouble(SubSeq(text, 3, Len(text)), q)
    ELSE <<text[1]>> \o undouble(Tail(text), q)

\* the source of a string token with the doubled quotes inside it undoubled
Undoubled(src) ==
    <<src[1]>> \o undouble(SubSeq(src, 2, Len(src) - 1), src[1]) \o <<src[Len(src)]>>

\* the characters read so far: up to next_pos while the loop runs and when it
\* has ended, up to the end of the last token once the tokenizer has raised
Scanned ==
    IF pc \in {"tokenize", "tokenized"} THEN next_pos
    ELSE IF tokens = <<>> THEN 0 ELSE tokens[Len(tokens)].end_index + 1

\* every character read that no token covers is whitespace
GapsAreWhitespace ==
    \A j \in 0..(Scanned - 1) :
        (\A i \in DOMAIN tokens : j < tokens[i].start_index \/ j > tokens[i].end_index)
            => isspace(sql[j + 1])

\* C5 as stated: the text of every token is the source text at its location,
\* string tokens with a doubled quote included, and the gaps between the
\* tokens are whitespace.
C5_TextIsSource ==
    /\ \A i \in DOMAIN tokens : tokens[i].text = Source(tokens[i])
    /\ GapsAreWhitespace

\* C5, amended: the text of every token is the source text at its location,
\* except that a string token holds each doubled quote of its source as one
\* quote character; the gaps between the tokens are whitespace.
C5_TextIsSourceUndoubled ==
    /\ \A i \in DOMAIN tokens :
          tokens[i].text = IF tokens[i].typ = "string" THEN Undoubled(Source(tokens[i]))
                           ELSE Source(tokens[i])
    /\ GapsAreWhitespace

\* the tokenizer has finished an input whose string token holds a doubled quote
C5_Witness ==
    /\ pc = "tokenized"
    /\ \E i \in DOMAIN tokens :
          tokens[i].typ = "string" /\ Len(tokens[i].text) < Len(Source(tokens[i]))

\* C6: when tokenize ends without raising, the last token it has produced is
\* an eof token located past the last character of the input.
C6_EndsWithEof ==
    pc = "tokenized" =>
        /\ tokens # <<>>
        /\ tokens[Len(tokens)].typ = "eof"
        /\ tokens[Len(tokens)].start_index = Len(sql)

\* C27: a punctuation token is yielded only with a text of the declared
\* punctuation set, or "%" or "%%": a start character with no one-character
\* form that is not followed by one of its continuations raises TokenizeError.
C27_PunctuationDeclared ==
    \A i \in DOMAIN tokens :
        tokens[i].typ = "punctuation" =>
            tokens[i].text \in PUNCTUATION \cup {<<"%">>, <<"%", "%">>}

\* C29: consuming tokenize to the end either yields the token sequence or
\* fails with TokenizeError, also when the input ends inside "%(name".
C29_OnlyTokenizeError == pc \in {"tokenize", "tokenized", "TokenizeError"}

(***************************************************************************)
(* Properties of format (Spec)                                             *)
(***************************************************************************)
\* C1: when format accepts sql, format accepts the text it has returned and
\* returns that same text.
C1_FormatIdempotent == pc = "reformatted" => (out2.err = "" /\ out2.out = out.out)

\* C7: sqltree never raises the parser's EOFError.
C7_NeverEOFError == tree.err # "EOFError"

(***************************************************************************)
(* Properties of parse and format_tree (SpecParse)                         *)
(***************************************************************************)
\* parse has returned or raised
Parsed == pc \in {"parsed", "formatted", "raised"}

IsKw(i, text) == i \in DOMAIN tokens /\ tokens[i].typ = "keyword" /\ tokens[i].text = text
IsPunc(i, text) ==
    i \in DOMAIN tokens /\ tokens[i].typ = "punctuation" /\ tokens[i].text = text

\* the index of the first token that is not a comment
FirstToken ==
    CHOOSE i \in DOMAIN tokens :
        /\ tokens[i].typ # "comment"
        /\ \A j \in 1..(i - 1) : tokens[j].typ = "comment"

\* the statement in tokens uses the feature
UsesFeature(feature) ==
    CASE feature = "with_clause" -> IsKw(FirstToken, W.with)
      [] feature = "limit_all" -> \E i \in DOMAIN tokens : IsKw(i, W.limit) /\ IsKw(i + 1, W.all)
      [] feature = "comma_offset" ->
            \E i \in DOMAIN tokens : IsKw(i, W.limit) /\ IsPunc(i + 2, <<",">>)
      [] feature = "update_limit" ->
            /\ IsKw(FirstToken, W.update) \/ IsKw(FirstToken, W.delete)
            /\ \E i \in DOMAIN tokens : IsKw(i, W.order) \/ IsKw(i, W.limit)
      [] feature = "delete_using" ->
            IsKw(FirstToken, W.delete) /\ \E i \in DOMAIN tokens : IsKw(i, W.using)

GatingFeatures == {"with_clause", "limit_all", "comma_offset", "update_limit", "delete_using"}

\* C3: parsing a statement that uses a feature the dialect does not support
\* raises ParseError.
C3_UnsupportedRaises ==
    (Parsed /\ \E feature \in GatingFeatures :
                   ~supports_feature(dialect, feature) /\ UsesFeature(feature))
        => tree.err = "ParseError"

\* tokens is a stream that parses as a complete statement, with a ")" put
\* between that statement and the eof token
StrayToken ==
    LET n == Len(tokens) IN
    /\ n >= 3
    /\ tokens[n].typ = "eof"
    /\ IsPunc(n - 1, <<")">>)
    /\ parse(Append(SubSeq(tokens, 1, n - 2), tokens[n]), dialect).err = ""

\* C4: when a token other than eof follows a complete statement, parse raises
\* ParseError located at that token.
C4_StrayTokenRaises ==
    (Parsed /\ StrayToken) =>
        (tree.err = "ParseError" /\ tree.at = tokens[Len(tokens) - 1])

\* the operator token at index i, and the node the parser makes of it
IsBinop(i) ==
    /\ i \in DOMAIN tokens
    /\ <<tokens[i].typ, tokens[i].text>> \in
           UNION {BINOP_PRECEDENCE[c] : c \in DOMAIN BINOP_PRECEDENCE}
OpNode(i) ==
    IF tokens[i].typ = "keyword" THEN Keyword(tokens[i], tokens[i].text)
    ELSE Punctuation(tokens[i], tokens[i].text)
Operand(i) == Identifier(tokens[i], tokens[i].text)

\* tokens is SELECT a op1 b op2 c
BinopInput ==
    /\ Len(tokens) = 7
    /\ IsKw(1, W.select)
    /\ \A i \in {2, 4, 6} : tokens[i].typ = "identifier"
    /\ IsBinop(3) /\ IsBinop(5)
    /\ tokens[7].typ = "eof"

\* the tree the precedence classes call for: op2 takes b when it binds
\* tighter than op1, and op1 takes b otherwise
BinopExpected ==
    IF PRECEDENCE_OF_OP(tokens[5].text) < PRECEDENCE_OF_OP(tokens[3].text)
    THEN BinOp(Operand(2), OpNode(3), BinOp(Operand(4), OpNode(5), Operand(6)))
    ELSE BinOp(BinOp(Operand(2), OpNode(3), Operand(4)), OpNode(5), Operand(6))

\* C8: a op1 b op2 c parses as (a op1 b) op2 c when op1 and op2 are of one
\* precedence class or op1 binds tighter, and as a op1 (b op2 c) when op2
\* binds tighter, for the operators of every class of _BINOP_PRECEDENCE.
C8_BinopPrecedence ==
    (Parsed /\ BinopInput) =>
        /\ tree.err = ""
        /\ tree.node.k = "Select"
        /\ Len(tree.node.select_exprs) = 1
        /\ tree.node.select_exprs[1].node.expr = BinopExpected

\* C19: _parse_expression terminates: no call of _parse_binop is made with a
\* precedence below 0, so parse never ends in the RecursionError of a descent
\* that does not reach _parse_simple_expression.
C19_ParseBinopTerminates == tree.err # "RecursionError"

\* the comments before the first statement token of sql, in source order
RECURSIVE LeadingOf(_)
LeadingOf(toks) ==
    IF toks # <<>> /\ toks[1].typ = "comment" THEN <<toks[1]>> \o LeadingOf(Tail(toks))
    ELSE <<>>
Leading == LeadingOf(tokenize(sql).toks)
\* one line per comment
RECURSIVE CommentLines(_)
CommentLines(comments) ==
    IF comments = <<>> THEN <<>>
    ELSE rstrip_newline(comments[1].text) \o <<"\n">> \o CommentLines(Tail(comments))

\* C13: the k >= 1 comments before the first statement token are the
\* leading_comments of the parsed statement, in source order, and the
\* formatted output starts with one line per comment
C13_LeadingComments ==
    (Leading # <<>> /\ Parsed /\ tree.err = "") =>
        /\ Len(tree.node.leading_comments) = Len(Leading)
        /\ \A j \in DOMAIN Leading : tree.node.leading_comments[j].text = Leading[j].text
        /\ pc = "formatted" =>
              /\ Len(CommentLines(Leading)) < Len(out.out)
              /\ SubSeq(out.out, 1, Len(CommentLines(Leading))) = CommentLines(Leading)

\* the placeholder tokens of the statement
PlaceholderTokens == {i \in DOMAIN tokens : tokens[i].typ = "placeholder"}
\* the fields of the statement nodes that hold an optional clause
ClauseSlots ==
    {"into_before_from", "from_clause", "where", "group_by", "having", "order_by", "limit",
     "into_before_lock_mode", "lock_mode", "into", "using_clause"}

\* C23: a placeholder that is the next token when an optional clause slot is
\* reached is consumed and stored in that slot as a PlaceholderClause: the
\* statement parses, and each of its placeholders is the PlaceholderClause of
\* one of the clause slots of the statement.
C23_PlaceholderFillsSlot ==
    (Parsed /\ PlaceholderTokens # {}) =>
        /\ tree.err = ""
        /\ \A i \in PlaceholderTokens :
              \E f \in ClauseSlots \cap DOMAIN tree.node :
                  tree.node[f] = PlaceholderClause(Placeholder(tokens[i], tokens[i].text))

\* C9: the ORDER BY and LIMIT that end a statement with a UNION are stored in
\* the UnionStatement: the Select of a last leg written without parentheses
\* holds neither.
C9_TrailingClausesOnUnion ==
    (Parsed /\ tree.err = "" /\ tree.node.k = "UnionStatement" /\ tree.node.others # <<>>) =>
        LET last == tree.node.others[Len(tree.node.others)].select IN
        last.left_paren = None =>
            (last.select.order_by = None /\ last.select.limit = None)

\* the pieces of the output lines, as <<line, piece>> index pairs
Pieces == {<<l, i>> : l \in DOMAIN out.lines, i \in 1..20}
PiecesOf(texts) ==
    {lp \in Pieces : lp[2] <= Len(out.lines[lp[1]]) /\ out.lines[lp[1]][lp[2]] \in texts}

\* the text of an output line up to its piece i
LineUpTo(line, i) == join(SubSeq(line, 1, i))
\* an output line without the newline that ends it
LineText(line) ==
    IF line # <<>> /\ line[Len(line)] = <<"\n">> THEN LineUpTo(line, Len(line) - 1)
    ELSE LineUpTo(line, Len(line))
\* the tokens written on an output line: its pieces other than spaces and
\* the newline
TokensOf(line) ==
    {i \in DOMAIN line : line[i] # <<>> /\ line[i] # <<"\n">> /\ ~str_isspace(line[i])}

IsCommentText(text) ==
    \/ Len(text) >= 1 /\ text[1] = "#"
    \/ Len(text) >= 2 /\ SubSeq(text, 1, 2) \in {<<"-", "-">>, <<"/", "*">>}

BooleanOperators == {W.and, <<"&", "&">>, W.xor, W.or, <<"|", "|">>}
\* the boolean operators the parser has consumed: one BinOp node each
BooleanTokens ==
    {i \in 1..next_pos : /\ tokens[i].typ \in {"keyword", "punctuation"}
                         /\ tokens[i].text \in BooleanOperators}

\* C10: the operator of every boolean BinOp is written after a newline that
\* follows the text of its left operand: each AND, &&, XOR, OR and || of the
\* statement is in the output, first on a line that is not the first line.
C10_BooleanOnNewLine ==
    pc = "formatted" =>
        /\ Cardinality(PiecesOf(BooleanOperators)) = Cardinality(BooleanTokens)
        /\ \A lp \in PiecesOf(BooleanOperators) :
              /\ lp[1] > 1
              /\ \A i \in 1..(lp[2] - 1) :
                    out.lines[lp[1]][i] = <<>> \/ str_isspace(out.lines[lp[1]][i])
              /\ \E l \in 1..(lp[1] - 1) : TokensOf(out.lines[l]) # {}

\* format_tree has written a boolean operator of a select list, one of a
\* WHERE clause and one inside parentheses
C10_Witness ==
    /\ pc = "formatted"
    /\ Cardinality(BooleanTokens) >= 3
    /\ PiecesOf({<<"|", "|">>}) # {}
    /\ PiecesOf({W.where}) # {}

\* C20: LineTooLong never propagates out of Formatter.format
C20_LineTooLongCaught ==
    (Parsed /\ tree.err = "" /\ pc # "parsed") => out.err # "LineTooLong"

\* a list that raised LineTooLong on its line and was laid out again
C20_Witness == pc = "formatted" /\ out.err = "" /\ Len(out.restores) >= 1

\* C11: a comma-separated list is laid out one element per line only while
\* every enclosing comma-separated list is laid out one element per line
C11_OutermostSplitsFirst ==
    pc = "formatted" =>
        \A i \in DOMAIN out.restores :
            \A j \in DOMAIN out.restores[i].enclosing :
                out.restores[i].enclosing[j] = "split"

\* a list nested in a list, both laid out one element per line
C11_Witness ==
    /\ pc = "formatted"
    /\ \E i \in DOMAIN out.restores :
          /\ out.restores[i].enclosing # <<>>
          /\ \A j \in DOMAIN out.restores[i].enclosing :
                out.restores[i].enclosing[j] = "split"

\* C21: when write_comma_list gives up its attempt on one line, restore_state
\* leaves the buffer as it was at the checkpoint: the same lines with the
\* same pieces and the same current_line_length, and get_state() == state.
C21_RestoresCheckpoint ==
    pc = "formatted" =>
        \A i \in DOMAIN out.restores :
            /\ out.restores[i].restored = out.restores[i].checkpoint
            /\ out.restores[i].got = out.restores[i].state

\* C30: with indent = 0 the string Formatter.format returns ends with exactly
\* one newline and holds no empty line: no newline is the first character
\* and no newline follows another.
C30_NoEmptyLine ==
    (pc = "formatted" /\ indent = 0) =>
        /\ out.out # <<>>
        /\ out.out[Len(out.out)] = "\n"
        /\ \A i \in DOMAIN out.out :
              out.out[i] = "\n" => (i > 1 /\ out.out[i - 1] # "\n")

(***************************************************************************)
(* version_is_in (dialect.py) called on its own: the version of dialect    *)
(* against a range.  A version that is not None has at least one part.     *)
(***************************************************************************)
MaxVersionPart == 2
MaxVersionLen == 2
VersionParts == 0..MaxVersionPart
Versions ==
    {NoVersion} \cup UNION {[1..n -> VersionParts] : n \in 1..MaxVersionLen}

InitVersion ==
    /\ sql = <<>>
    /\ dialect \in {Dialect("mysql", v) : v \in Versions}
    /\ line_length = DEFAULT_LINE_LENGTH
    /\ indent = 0
    /\ pc = "start"
    /\ next_pos = 0
    /\ tokens = <<>>
    /\ tree = NoResult
    /\ out = NoResult
    /\ out2 = NoResult
    /\ _keywords = NoKeywords
    /\ threads = <<>>
    /\ version_range \in Versions \X Versions
    /\ returned = <<>>

VersionIsIn ==
    /\ pc = "start"
    /\ returned' = <<version_is_in(dialect.version, version_range[1], version_range[2])>>
    /\ pc' = "returned"
    /\ UNCHANGED <<sql, dialect, line_length, indent, next_pos, tokens, tree, out, out2,
                   _keywords, threads, version_range>>

NextVersion == VersionIsIn
SpecVersion == InitVersion /\ [][NextVersion]_vars

\* a < b in the lexicographic order of tuples: at the first index where they
\* differ a is smaller, or a is a proper prefix of b
LexLess(a, b) ==
    \E i \in 1..Len(b) :
        /\ \A j \in 1..(i - 1) : j <= Len(a) /\ a[j] = b[j]
        /\ (i > Len(a) \/ a[i] < b[i])

\* C17: for a version v that is not None, version_is_in(v, s, e) is true
\* exactly when (s is None or v >= s) and (e is None or v < e) in the
\* lexicographic order of tuples; for v = None it is true exactly when e is None.
C17_VersionIsIn ==
    pc = "returned" =>
        LET v == dialect.version
            s == version_range[1]
            e == version_range[2]
        IN  returned[1] =
                IF v = NoVersion THEN e = NoVersion
                ELSE /\ (s = NoVersion \/ ~LexLess(v, s))
                     /\ (e = NoVersion \/ LexLess(v, e))

\* version_is_in has returned for a version that equals the upper bound of
\* the range and is above its lower bound
C17_Witness ==
    /\ pc = "returned"
    /\ dialect.version # NoVersion
    /\ version_range[2] = dialect.version
    /\ version_range[1] # NoVersion
    /\ LexLess(version_range[1], dialect.version)
    /\ returned = <<FALSE>>

(***************************************************************************)
(* Dialect.get_keywords called by several threads on one Dialect object.   *)
(* A thread can be preempted between any two reads or writes of            *)
(* self._keywords: the test, the read of the first return, the computation *)
(* and the store are steps of their own.                                   *)
(***************************************************************************)
MaxThreads == 3
Threads == 1..MaxThreads

InitKeywords ==
    /\ sql = <<>>
    /\ dialect \in Dialects \cup {Dialect("mysql", <<5>>), Dialect("mysql", <<8>>)}
    /\ line_length = DEFAULT_LINE_LENGTH
    /\ indent = 0
    /\ pc = "start"
    /\ next_pos = 0
    /\ tokens = <<>>
    /\ tree = NoResult
    /\ out = NoResult
    /\ out2 = NoResult
    /\ _keywords = NoKeywords
    /\ threads = [th \in Threads |-> [at |-> "test", keywords |-> NoKeywords]]
    /\ version_range = <<>>
    /\ returned = [th \in Threads |-> NoKeywords]

\* if self._keywords is not None
KeywordsTest(th) ==
    /\ threads[th].at = "test"
    /\ threads' = [threads EXCEPT ![th].at =
                      IF keywords_is_set(_keywords) THEN "return_cached" ELSE "compute"]
    /\ UNCHANGED <<sql, dialect, line_length, indent, pc, next_pos, tokens, tree, out, out2,
                   _keywords, version_range, returned>>

\* return self._keywords
KeywordsReturnCached(th) ==
    /\ threads[th].at = "return_cached"
    /\ returned' = [returned EXCEPT ![th] = return_cached(_keywords)]
    /\ threads' = [threads EXCEPT ![th].at = "cached"]
    /\ UNCHANGED <<sql, dialect, line_length, indent, pc, next_pos, tokens, tree, out, out2,
                   _keywords, version_range>>

\* keywords = _compute_keywords(self.vendor, self.version)
KeywordsCompute(th) ==
    /\ threads[th].at = "compute"
    /\ threads' = [threads EXCEPT ![th] =
                      [at |-> "store", keywords |-> compute_keywords(dialect.vendor, dialect.version)]]
    /\ UNCHANGED <<sql, dialect, line_length, indent, pc, next_pos, tokens, tree, out, out2,
                   _keywords, version_range, returned>>

\* self._keywords = keywords
KeywordsStore(th) ==
    /\ threads[th].at = "store"
    /\ _keywords' = threads[th].keywords
    /\ threads' = [threads EXCEPT ![th].at = "return"]
    /\ UNCHANGED <<sql, dialect, line_length, indent, pc, next_pos, tokens, tree, out, out2,
                   version_range, returned>>

\* return keywords
KeywordsReturn(th) ==
    /\ threads[th].at = "return"
    /\ returned' = [returned EXCEPT ![th] = threads[th].keywords]
    /\ threads' = [threads EXCEPT ![th].at = "computed"]
    /\ UNCHANGED <<sql, dialect, line_length, indent, pc, next_pos, tokens, tree, out, out2,
                   _keywords, version_range>>

NextKeywords ==
    \E th \in Threads :
        \/ KeywordsTest(th)
        \/ KeywordsReturnCached(th)
        \/ KeywordsCompute(th)
        \/ KeywordsStore(th)
        \/ KeywordsReturn(th)
SpecKeywords == InitKeywords /\ [][NextKeywords]_vars

Returned(th) == threads[th].at \in {"cached", "computed"}

\* C18: under every interleaving of the threads that call get_keywords on one
\* Dialect, every call that has returned has returned
\* _compute_keywords(vendor, version), and once all calls have returned the
\* cache holds that set.
C18_ConcurrentGetKeywords ==
    /\ \A th \in Threads :
          Returned(th) => returned[th] = compute_keywords(dialect.vendor, dialect.version)
    /\ (\A th \in Threads : Returned(th)) =>
          _keywords = compute_keywords(dialect.vendor, dialect.version)

\* all calls have returned; two threads have raced through the computation and
\* the store, and one has returned the cached set
C18_Witness ==
    /\ \A th \in Threads : Returned(th)
    /\ Cardinality({th \in Threads : threads[th].at = "computed"}) >= 2
    /\ \E th \in Threads : threads[th].at = "cached"

(***************************************************************************)
(* mangle on the token streams of short word sequences: the words of       *)
(* KEYWORD_PAIRS, an identifier and a comment, in every order              *)
(***************************************************************************)
MaxTokens == 4
MangleWords == {w.is, w.not, w.in, w.like, <<"a">>, BlockComment}
MangleInputs == UNION {[1..n -> MangleWords] : n \in 1..MaxTokens}

InitMangle ==
    /\ sql \in {Text(s) : s \in MangleInputs}
    /\ dialect = MysqlDialect
    /\ line_length = DEFAULT_LINE_LENGTH
    /\ indent = 0
    /\ pc = "tokenized"
    /\ next_pos = 0
    /\ tokens = tokenize(sql).toks
    /\ tree = NoResult
    /\ out = NoResult
    /\ out2 = NoResult
    /\ NoDialectCalls

NextMangle == DistinguishKeywords \/ Mangle
SpecMangle == InitMangle /\ [][NextMangle]_vars

\* the stream mangle is called on
Distinguished == distinguish_keywords(tokenize(sql).toks, dialect)
IsComment(token) == token.typ = "comment"
\* the tokens of the stream input that mangle does not attach to another:
\* the first token and every token that is not a comment
Unattached(input) ==
    SelectSeq([i \in 1..Len(input) |-> i], LAMBDA i : i = 1 \/ ~IsComment(input[i]))
IsPair(left, right) ==
    \E pair \in KEYWORD_PAIRS : is_keyword(left, pair[1]) /\ is_keyword(right, pair[2])
SameToken(a, b) ==
    /\ a.typ = b.typ
    /\ a.text = b.text
    /\ a.start_index = b.start_index
    /\ a.end_index = b.end_index
\* the comments of input after the start of output[i] and before the start
\* of output[i + 1]
CommentsUpToNext(input, output, i) ==
    SelectSeq(input,
              LAMBDA c : /\ IsComment(c)
                         /\ c.start_index > output[i].start_index
                         /\ (i < Len(output) => c.start_index < output[i + 1].start_index))
\* the unattached tokens of input that lie within the location of token
Within(input, unattached, token) ==
    SelectSeq(unattached,
              LAMBDA n : /\ input[n].start_index >= token.start_index
                         /\ input[n].end_index <= token.end_index)

\* output[i] is the one input token held, or the merge of the two held
MergedOrSame(input, output, i, held) ==
    /\ Len(held) \in {1, 2}
    /\ Len(held) = 1 => SameToken(output[i], input[held[1]])
    /\ Len(held) = 2 =>
          /\ IsPair(input[held[1]], input[held[2]])
          /\ output[i].typ = "keyword"
          /\ output[i].text = input[held[1]].text \o <<" ">> \o input[held[2]].text
          /\ output[i].start_index = input[held[1]].start_index
          /\ output[i].end_index = input[held[2]].end_index
    /\ output[i].comments = CommentsUpToNext(input, output, i)

PairsMerged(input, unattached, output) ==
    /\ \A i \in 1..(Len(output) - 1) : ~IsPair(output[i], output[i + 1])
    /\ \A i \in DOMAIN output :
          MergedOrSame(input, output, i, Within(input, unattached, output[i]))
    /\ \A k \in DOMAIN unattached : \E i \in DOMAIN output :
          /\ input[unattached[k]].start_index >= output[i].start_index
          /\ input[unattached[k]].end_index <= output[i].end_index
    /\ \A i \in 1..(Len(output) - 1) : output[i].end_index < output[i + 1].start_index

MergesPairs(input, output) == PairsMerged(input, Unattached(input), output)

\* C25: in the output of mangle every token is a token of the input or stands
\* for a keyword L and the keyword R after it (comments aside) of a pair of
\* KEYWORD_PAIRS, with the text "L R", the start of L, the end of R and the
\* comments of both; the output tokens cover the input in order, and no two
\* adjacent output tokens form a pair.
C25_PairsMerged == pc = "mangled" => MergesPairs(Distinguished, tokens)

\* mangle has merged a pair with a comment between its two keywords, and has
\* left alone a second keyword that would pair only with the keyword merged
C25_Witness ==
    /\ pc = "mangled"
    /\ \E i \in 1..(Len(tokens) - 1) :
          /\ tokens[i].text = W.is \o <<" ">> \o W.not
          /\ tokens[i].comments # <<>>
          /\ tokens[i].comments[1].start_index < tokens[i].end_index
          /\ is_keyword(tokens[i + 1], W.in)

\* C16: of two consecutive tokens that tokenize yields the first ends before
\* the second starts; the same holds for the consecutive elements of the
\* mangled stream, and every comment a token owns starts after the start of
\* that token.
C16_LocationsIncrease ==
    /\ \A i \in 1..(Len(tokens) - 1) : tokens[i].end_index < tokens[i + 1].start_index
    /\ \A i \in DOMAIN tokens : \A j \in DOMAIN tokens[i].comments :
          tokens[i].comments[j].start_index > tokens[i].start_index

\* mangle has merged two keywords with a comment between them into a token
\* that another token follows
C16_Witness ==
    /\ pc = "mangled"
    /\ Len(tokens) >= 2
    /\ tokens[1].text = W.not \o <<" ">> \o W.like
    /\ tokens[1].comments # <<>>
    /\ tokens[1].comments[1].end_index < tokens[1].end_index

\* the comments of a token stream in order: a comment that is an element of
\* the stream, then the comments each element owns
RECURSIVE CommentsOf(_)
CommentsOf(toks) ==
    IF toks = <<>> THEN <<>>
    ELSE (IF IsComment(toks[1]) THEN <<[toks[1] EXCEPT !.comments = <<>>]>> ELSE <<>>)
         \o toks[1].comments \o CommentsOf(Tail(toks))

\* C26: every comment token of the input of mangle is in the output once, as
\* the first element or in the comments of one element, in source order, and
\* no element after the first is a comment.
C26_CommentsKept ==
    pc = "mangled" =>
        /\ CommentsOf(tokens) = SelectSeq(Distinguished, IsComment)
        /\ \A i \in 2..Len(tokens) : ~IsComment(tokens[i])

\* mangle has run on a stream that starts with two comments and holds a pair
\* of keywords after them
C26_Witness ==
    /\ pc = "mangled"
    /\ Len(tokens) = 2
    /\ IsComment(tokens[1])
    /\ Len(tokens[1].comments) = 1
    /\ tokens[2].text = W.not \o <<" ">> \o W.in

\* Location (location.py): the source text and the indices of the first and
\* of the last character, both 0-based
Location(s, start_index, end_index) ==
    [sql |-> s, start_index |-> start_index, end_index |-> end_index]
\* token.loc of a token of the stream made from sql
loc(token) == Location(sql, token.start_index, token.end_index)
\* _EOF (parser.py), the token that ends the modifier list handed to the
\* parsers of SHOW
_EOF == [typ |-> "eof", text |-> <<>>, loc |-> Location(<<>>, 0, 0), comments |-> <<>>]

InRange(l) ==
    /\ 0 <= l.start_index
    /\ l.start_index <= l.end_index + 1
    /\ l.end_index + 1 <= Len(l.sql)

\* the locations of the tokens of the stream and of the comments they own
TokenLocationsInRange ==
    \A i \in DOMAIN tokens :
        /\ InRange(loc(tokens[i]))
        /\ \A j \in DOMAIN tokens[i].comments : InRange(loc(tokens[i].comments[j]))

\* C28: every Location constructed satisfies
\* 0 <= start_index <= end_index + 1 <= len(sql): those of the tokens that
\* tokenize yields, of the tokens that mangle merges, and of _EOF.
C28_LocationsInRange == TokenLocationsInRange /\ InRange(_EOF.loc)

(***************************************************************************)
(* The pipeline on FROM clauses with joins, at every indent                *)
(***************************************************************************)
MaxJoins == 2

JoinOps == { <<w.join>>, <<w.left, w.join>>, <<w.natural, w.join>>, <<w.straight_join>> }
JoinSpecs == { <<>>, << w.on, <<"x">> >> }
JoinTables == { <<"b">> }

\* a table followed by one to n joins
RECURSIVE JoinsOf(_)
JoinsOf(n) ==
    IF n = 0 THEN { << <<"a">> >> }
    ELSE LET shorter == JoinsOf(n - 1)
         IN  shorter \cup {j \o op \o <<t>> \o js : j \in shorter, op \in JoinOps,
                                                   t \in JoinTables, js \in JoinSpecs}

\* USING ( x ) and an index hint, with a comment after the opening
\* parenthesis, after the column or index, or after the closing parenthesis
UsingCommented ==
    {pre \o <<<<"(">>>> \o c1 \o <<<<"x">>>> \o c2 \o <<<<")">>>> \o c3 :
       pre \in { << w.select, <<"x">>, w.from, <<"a">>, w.join, <<"b">>, w.using >>,
                 << w.select, <<"x">>, w.from, <<"t">>, w.use, w.index >> },
       c1 \in {<<>>, <<LineComment>>}, c2 \in {<<>>, <<LineComment>>},
       c3 \in {<<>>, <<LineComment>>}}

FromPrefixes == { << w.select, <<"x">>, w.from >>, << w.select, <<"x">>, w.from, LineComment >> }
JoinStatements ==
    {pre \o j \o tail : pre \in FromPrefixes, j \in JoinsOf(MaxJoins), tail \in JoinSpecs}
    \cup { << w.select, <<"x">>, w.from, <<"a">>, w.inner, w.straight_join, <<"b">> >>,
           << w.select, <<"x">>, w.from, <<"a">>, w.cross, w.join, <<"b">>, w.using,
              <<"(">>, <<"x">>, <<",">>, <<"y">>, <<")">> >> }
    \cup UsingCommented

Indents == {0, INDENT_SIZE}

InitJoin ==
    /\ sql \in {Text(st) : st \in JoinStatements}
    /\ dialect \in Dialects
    /\ line_length = DEFAULT_LINE_LENGTH
    /\ indent \in Indents
    /\ pc = "tokenized"
    /\ next_pos = 0
    /\ tokens = Append(tokenize(sql).toks, Eof(sql))
    /\ tree = NoResult
    /\ out = NoResult
    /\ out2 = NoResult
    /\ NoDialectCalls

NextJoin == DistinguishKeywords \/ Mangle \/ Parse \/ FormatTree
SpecJoin == InitJoin /\ [][NextJoin]_vars

\* the joined tables of a table reference: the node, and those of its operands
RECURSIVE JoinedIn(_)
JoinedIn(ref) ==
    IF ref.k \in JoinedTables THEN {ref} \cup JoinedIn(ref.left) \cup JoinedIn(ref.right)
    ELSE {}
\* the table references of the FROM clause of the parsed SELECT
FromTables == {tree.node.from_clause.table[i].node : i \in DOMAIN tree.node.from_clause.table}

\* C22: the right operand of every joined table the parser builds is a table
\* factor, never a joined table: joins nest through the left operand only.
C22_RightIsTableFactor ==
    pc = "parsed" =>
        \A ref \in FromTables : \A j \in JoinedIn(ref) : j.right.k \notin JoinedTables

\* the lines of the body that format_tree has written, as texts
BodyLines == {LineText(out.lines[l]) : l \in DOMAIN out.lines}
\* the number of spaces a text starts with
RECURSIVE LeadingSpaces(_)
LeadingSpaces(text) ==
    IF text # <<>> /\ text[1] = " " THEN 1 + LeadingSpaces(Tail(text)) ELSE 0

\* C15: every line of the body that holds text starts with at least indent
\* spaces.
C15_LinesIndented ==
    pc = "formatted" =>
        \A text \in BodyLines :
            (\E i \in DOMAIN text : text[i] # " ") => LeadingSpaces(text) >= indent

(***************************************************************************)
(* The optional combinators and clause parsers, called at every position   *)
(* of short token lists                                                    *)
(***************************************************************************)
MaxClauseTokens == 2
ClauseWords ==
    {w.group, w.by, w.order, w.limit, w.where, w.having, w.from, w.using, w.use, w.index,
     <<"U","s","e">>, <<"a">>, <<"(">>, <<",">>, PlaceholderS}
ClauseInputs == UNION {[1..n -> ClauseWords] : n \in 1..MaxClauseTokens}

\* the calls that may return None: the function and its arguments after p
OptionalCalls ==
    {<<"_maybe_consume_keyword", kw>> : kw \in {W.group, W.use}}
    \cup {<<"_maybe_consume_one_of_keywords", <<W.index, W.key>>>>,
          <<"_maybe_consume_punctuation", <<"(">>>>,
          <<"_maybe_consume_keyword_sequence", <<W.group, W.by>>>>,
          <<"_maybe_consume_keyword_sequence", <<W.order, W.by>>>>,
          <<"_maybe_parse_identifier">>, <<"_parse_index_hint">>,
          <<"_parse_from_clause", TRUE>>, <<"_parse_where_clause">>,
          <<"_parse_having_clause">>, <<"_parse_group_by_clause">>,
          <<"_parse_select_limit_clause">>, <<"_maybe_parse_col_name_list">>}
    \cup {<<f, allowed>> : f \in {"_parse_order_by_clause", "_parse_limit_clause",
                                  "_parse_using_clause"},
                           allowed \in BOOLEAN}

optional_call(c, p) ==
    CASE c[1] = "_maybe_consume_keyword" -> maybe_consume_keyword(p, c[2])
      [] c[1] = "_maybe_consume_one_of_keywords" -> maybe_consume_one_of_keywords(p, c[2])
      [] c[1] = "_maybe_consume_punctuation" -> maybe_consume_punctuation(p, c[2])
      [] c[1] = "_maybe_consume_keyword_sequence" -> maybe_consume_keyword_sequence(p, c[2])
      [] c[1] = "_maybe_parse_identifier" -> maybe_parse_identifier(p)
      [] c[1] = "_parse_index_hint" -> parse_index_hint(p)
      [] c[1] = "_parse_from_clause" -> parse_from_clause(p, c[2])
      [] c[1] = "_parse_where_clause" -> parse_where_clause(p)
      [] c[1] = "_parse_having_clause" -> parse_having_clause(p)
      [] c[1] = "_parse_group_by_clause" -> parse_group_by_clause(p)
      [] c[1] = "_parse_select_limit_clause" -> parse_select_limit_clause(p)
      [] c[1] = "_maybe_parse_col_name_list" -> maybe_parse_col_name_list(p)
      [] c[1] = "_parse_order_by_clause" -> parse_order_by_clause(p, c[2])
      [] c[1] = "_parse_limit_clause" -> parse_limit_clause(p, c[2])
      [] c[1] = "_parse_using_clause" -> parse_using_clause(p, c[2])

InitMaybe ==
    /\ sql \in {Text(s) : s \in ClauseInputs}
    /\ dialect \in Dialects
    /\ line_length = DEFAULT_LINE_LENGTH
    /\ indent = 0
    /\ pc = "tokenized"
    /\ next_pos = 0
    /\ tokens = tokenize(sql).toks
    /\ tree = NoResult
    /\ out = NoResult
    /\ out2 = NoResult
    /\ NoDialectCalls

\* p.pi.next(): the parser consumes one token
PiNext ==
    /\ pc = "mangled"
    /\ next_pos < Len(tokens)
    /\ next_pos' = next_pos + 1
    /\ UNCHANGED <<dialect_calls, sql, dialect, line_length, indent, pc, tokens, tree, out, out2>>

\* one call of an optional parser at the cursor; tree records the call, the
\* cursor before it and what it returned or raised
CallOptional ==
    /\ pc = "mangled"
    /\ \E c \in OptionalCalls :
       \E r \in {optional_call(c, [Parser(tokens, dialect) EXCEPT !.next_pos = next_pos])} :
          /\ tree' = [err |-> r.err, at |-> r.at, node |-> r.node, call |-> c,
                      before |-> next_pos]
          /\ next_pos' = IF r.err = "" THEN r.p.next_pos ELSE next_pos
    /\ pc' = "called"
    /\ UNCHANGED <<dialect_calls, sql, dialect, line_length, indent, tokens, out, out2>>

NextMaybe == DistinguishKeywords \/ Mangle \/ PiNext \/ CallOptional
SpecMaybe == InitMaybe /\ [][NextMaybe]_vars

ReturnedNone == pc = "called" /\ tree.err = "" /\ tree.node = None

\* C24: whenever an optional combinator or clause parser returns None, the
\* parser cursor next_pos is what it was before the call
C24_NoneRestoresCursor == ReturnedNone => next_pos = tree.before

\* GROUP not followed by BY: the sequence matched in part and returned None
C24_Witness ==
    /\ ReturnedNone
    /\ next_pos = tree.before
    /\ tree.call = <<"_maybe_consume_keyword_sequence", <<W.group, W.by>>>>
    /\ next_pos + 2 = Len(tokens)
    /\ tokens[next_pos + 1].text = W.group
    /\ tokens[next_pos + 2].text # W.by

\* the token list ended during the match of GROUP BY
C24_ListEnded ==
    /\ ReturnedNone
    /\ tree.call = <<"_parse_group_by_clause">>
    /\ next_pos + 1 = Len(tokens)
    /\ tokens[next_pos + 1].text = W.group

\* an index hint introducer that no INDEX or KEY follows
C24_IntroOnly ==
    /\ ReturnedNone
    /\ tree.call = <<"_parse_index_hint">>
    /\ next_pos < Len(tokens)
    /\ upper(tokens[next_pos + 1].text) = W.use

(***************************************************************************)
(* Index hints with their keywords in lower, upper and mixed case          *)
(***************************************************************************)
\* str.capitalize
capitalize(s) == [i \in 1..Len(s) |-> IF i = 1 THEN upper_char(s[i]) ELSE lower_char(s[i])]
Cases(word) == {lower(word), upper(word), capitalize(word)}

HintLists == { <<>>, <<<<"i">>>>, <<<<"i">>, <<",">>, w.primary>> }
HintFors == { <<>>, <<w.for, w.join>> }
CaseStatements ==
    {<<select, <<"x">>, w.from, <<"t">>, <<"a">>, intro, kind>> \o for \o <<<<"(">>>> \o list
       \o <<<<")">>>> :
       select \in {w.select, W.select},
       intro \in UNION {Cases(word) : word \in {W.use, W.ignore, W.force}},
       kind \in {w.index, W.index, w.key},
       for \in HintFors, list \in HintLists}
CaseInputs == {Text(st) : st \in CaseStatements}

InitCase ==
    /\ sql \in CaseInputs
    /\ dialect \in Dialects
    /\ line_length = DEFAULT_LINE_LENGTH
    /\ indent = 0
    /\ pc = "tokenized"
    /\ next_pos = 0
    /\ tokens = Append(tokenize(sql).toks, Eof(sql))
    /\ tree = NoResult
    /\ out = NoResult
    /\ out2 = NoResult
    /\ NoDialectCalls

NextCase == DistinguishKeywords \/ Mangle \/ Parse \/ FormatTree
SpecCase == InitCase /\ [][NextCase]_vars

\* what format returns or raises, from a token stream that ends with eof
format_tokens(toks, d, ll, ind) ==
    Bind(parse(mangle(distinguish_keywords(toks, d)), d), LAMBDA t :
    IF t.err # "" THEN [err |-> t.err, out |-> <<>>]
    ELSE Bind(format_tree(t.node, d, ll, ind), LAMBDA o : [err |-> o.err, out |-> o.out]))
\* the result of the run: the exception of parse, or the outcome of format_tree
Result == IF tree.err # "" THEN [err |-> tree.err, out |-> <<>>]
          ELSE [err |-> out.err, out |-> out.out]
\* the inputs that differ from sql in the letter case of keyword words only;
\* the identifiers of CaseInputs are in lower case
OtherCases == {s \in CaseInputs : upper(s) = upper(sql) /\ s # sql}

\* C12: two inputs that differ only in the letter case of keyword words
\* give the same result from format, the same output or the same exception
C12_KeywordCaseInsensitive ==
    pc \in {"formatted", "raised"} =>
        \A s \in OtherCases :
            format_tokens(Append(tokenize(s).toks, Eof(s)), dialect, line_length, indent)
                = Result


\* text[i..] starts with s
OccursAt(text, s, i) == i + Len(s) - 1 <= Len(text) /\ SubSeq(text, i, i + Len(s) - 1) = s
Occurs(text, s) == \E i \in 1..Len(text) : OccursAt(text, s, i)
\* the comment as add_comments writes it, and the newline after it
CommentLine(comment) == rstrip_newline(comment.text) \o <<"\n">>
\* the tokens that carry comments after mangle
Owners == {i \in DOMAIN tokens : tokens[i].comments # <<>>}

\* C14: each comment owned by the token of an emitted leaf is in the output
\* and followed by a newline; the first comment of a leaf that is not a
\* keyword follows the text of the leaf and a space, on the same line
C14_CommentsFollowLeaf ==
    (pc = "formatted" /\ indent = 0) =>
        \A i \in Owners :
            /\ \A j \in DOMAIN tokens[i].comments :
                  Occurs(out.out, CommentLine(tokens[i].comments[j]))
            /\ tokens[i].typ # "keyword" =>
                  Occurs(out.out, tokens[i].text \o <<" ">>
                                     \o CommentLine(tokens[i].comments[1]))

====
